---- MODULE Spec2Model ----
(***************************************************************************)
(* A model of List<T> (src/listHeader.hpp, src/listImplementation.tpp), a  *)
(* doubly-linked list owning heap nodes through head / tail / size.        *)
(*                                                                         *)
(* The heap is a table of node cells indexed by address.  `new Node` takes *)
(* the lowest free address and throws std::bad_alloc when no cell is free; *)
(* `delete` returns the cell and leaves it poisoned.  A member function is *)
(* a pure operator from a store (heap + both lists' fields + the outcome   *)
(* of the call) to a store, so that member functions that call other       *)
(* member functions (resize, assign, operator=, ...) are composed exactly  *)
(* as in the source.  Every action of the state machine is one whole call  *)
(* of a public member function.                                            *)
(***************************************************************************)
EXTENDS Integers, Sequences, FiniteSets, TLC

\* ------------------------------------------------------------------ bounds
MaxNodes == 4      \* number of heap cells: `new` fails when all are in use
MaxVal   == 1      \* element values are 0..MaxVal
MaxCount == 2      \* largest count / longest input range passed to a call

\* --------------------------------------------------------------- constants
NULL == 0          \* nullptr
DefaultValue == 0  \* T() for T = int, what emplace_back() with no argument stores
SizeMod == 65536   \* size_t arithmetic is modular; the width is cut to 16 bits

Nodes  == 1..MaxNodes
Ptr    == Nodes \cup {NULL}
Values == DefaultValue..MaxVal
Lists  == {"lst", "another_lst"}

\* The content of a cell that holds no live node.
Poison == [data |-> DefaultValue, next |-> NULL, prev |-> NULL]

\* All sequences over S of length at most n.
SeqsUpTo(S, n) == UNION {[1..k -> S] : k \in 0..n}

VARIABLES
  heap,    \* [Ptr -> [data, next, prev]]: the node cells (heap[NULL] is never live)
  live,    \* the addresses that hold a node that was allocated and not deleted
  head,    \* [Lists -> Ptr]: List::head
  tail,    \* [Lists -> Ptr]: List::tail
  size,    \* [Lists -> Nat]: List::size
  call,    \* history: the last call made on lst in a scenario (see CallRec)
  abs,     \* history: the abstract sequence run side by side with lst
  pushed,  \* history: round trip, the values pushed so far
  popped,  \* history: round trip, the values read by back() before each pop_back()
  phase    \* history: round trip, "push", "read" or "popped"

vars == <<heap, live, head, tail, size, call, abs, pushed, popped, phase>>

\* ------------------------------------------------------------------ stores
\* The store a call starts from: the current state, no exception, no result.
S == [heap |-> heap, live |-> live, head |-> head, tail |-> tail,
      size |-> size, exc |-> "none", ret |-> NULL]

\* throw: the call ends here; callers in the same call stack do nothing more.
Throw(s, e) == [s EXCEPT !.exc = e]

\* Use of a null or dangling pointer: undefined behaviour, recorded as such.
Undefined(s) == [s EXCEPT !.exc = "undefined"]

Valid(s, p) == p \in s.live

\* p->f = v
Wr(s, p, f, v) == IF Valid(s, p) THEN [s EXCEPT !.heap[p][f] = v] ELSE Undefined(s)

\* p->f
Rd(s, p, f) == s.heap[p][f]

FreeNodes(s) == Nodes \ s.live

\* The address `new` returns.
NewAddr(s) == CHOOSE n \in FreeNodes(s) : \A m \in FreeNodes(s) : n <= m

\* Node::Node(value): data(value), next(nullptr), prev(nullptr), in a fresh cell.
Node(s, n, value) ==
  [s EXCEPT !.heap[n] = [data |-> value, next |-> NULL, prev |-> NULL],
            !.live = @ \cup {n}]

\* delete p
Delete(s, p) ==
  IF p = NULL THEN s
  ELSE IF Valid(s, p) THEN [s EXCEPT !.live = @ \ {p}, !.heap[p] = Poison]
  ELSE Undefined(s)

\* ++size and --size on size_t
IncOf(n) == (n + 1) % SizeMod
DecOf(n) == (n + SizeMod - 1) % SizeMod
IncSize(s, l) == [s EXCEPT !.size[l] = IncOf(@)]
DecSize(s, l) == [s EXCEPT !.size[l] = DecOf(@)]

\* ------------------------------------------------------------- traversals
\* The nodes an iterator visits from p, stepping through field f ("next" for
\* iterator::operator++, "prev" for reverse_iterator::operator++) until it
\* compares equal to the null sentinel.  The walk is cut after `fuel` steps, so
\* a cyclic chain shows as a walk longer than any list.
RECURSIVE Walk(_, _, _, _)
Walk(h, f, p, fuel) ==
  IF p = NULL \/ fuel = 0 THEN <<>>
  ELSE <<p>> \o Walk(h, f, h[p][f], fuel - 1)

\* begin() .. end()
begin(s, l) == s.head[l]
end(s, l) == NULL
\* rbegin() .. rend()
rbegin(s, l) == s.tail[l]
rend(s, l) == NULL

FwdNodes(s, l) == Walk(s.heap, "next", begin(s, l), MaxNodes + 1)
BwdNodes(s, l) == Walk(s.heap, "prev", rbegin(s, l), MaxNodes + 1)

DataOf(s, ns) == [i \in 1..Len(ns) |-> s.heap[ns[i]].data]
Elems(s, l) == DataOf(s, FwdNodes(s, l))
RElems(s, l) == DataOf(s, BwdNodes(s, l))

Range(q) == {q[i] : i \in 1..Len(q)}
Rev(q) == [i \in 1..Len(q) |-> q[Len(q) + 1 - i]]

\* ---------------------------------------------------------- observers
getSize(s, l) == s.size[l]
empty(s, l) == begin(s, l) = end(s, l)

\* front without its emptiness check.
front_unchecked(s, l) ==
  IF ~Valid(s, s.head[l]) THEN Undefined(s)
  ELSE [s EXCEPT !.ret = Rd(s, s.head[l], "data")]

front(s, l) ==
  IF s.head[l] = NULL THEN Throw(s, "out_of_range")
  ELSE IF ~Valid(s, s.head[l]) THEN Undefined(s)
  ELSE [s EXCEPT !.ret = Rd(s, s.head[l], "data")]

back(s, l) ==
  IF s.tail[l] = NULL THEN Throw(s, "out_of_range")
  ELSE IF ~Valid(s, s.tail[l]) THEN Undefined(s)
  ELSE [s EXCEPT !.ret = Rd(s, s.tail[l], "data")]

\* A read through p: undefined behaviour unless p is a live node.
Chk(s, p) == IF Valid(s, p) THEN s ELSE Undefined(s)

\* ------------------------------------------------------ single insertion
\* LinkAtTail without new_node->prev = tail.
LinkAtTail_no_prev(s, l, new_node) ==
  LET a == Wr(s, s.tail[l], "next", new_node)
  IN  [a EXCEPT !.tail[l] = new_node]

\* tail->next = new_node; new_node->prev = tail; tail = new_node;
LinkAtTail(s, l, new_node) ==
  LET t == s.tail[l]
      a == Wr(s, t, "next", new_node)
      b == Wr(a, new_node, "prev", t)
  IN  [b EXCEPT !.tail[l] = new_node]

\* LinkAtHead without head->prev = new_node.
LinkAtHead_no_prev(s, l, new_node) ==
  LET h == s.head[l]
      b == Wr(s, new_node, "next", h)
  IN  [b EXCEPT !.head[l] = new_node]

\* LinkAtHead without head = new_node.
LinkAtHead_keeps_head(s, l, new_node) ==
  LET h == s.head[l]
      a == Wr(s, h, "prev", new_node)
  IN  Wr(a, new_node, "next", h)

\* head->prev = new_node; new_node->next = head; head = new_node;
LinkAtHead(s, l, new_node) ==
  LET h == s.head[l]
      a == Wr(s, h, "prev", new_node)
      b == Wr(a, new_node, "next", h)
  IN  [b EXCEPT !.head[l] = new_node]

\* LinkBefore without its last statement, current->prev = new_node.
LinkBefore_no_backlink(s, current, new_node) ==
  LET a == Wr(Chk(s, current), new_node, "next", current)
      b == Wr(a, new_node, "prev", Rd(a, current, "prev"))
  IN  Wr(b, Rd(b, current, "prev"), "next", new_node)

\* new_node->next = current; new_node->prev = current->prev;
\* current->prev->next = new_node; current->prev = new_node;
LinkBefore(s, current, new_node) ==
  LET a == Wr(Chk(s, current), new_node, "next", current)
      b == Wr(a, new_node, "prev", Rd(a, current, "prev"))
      c == Wr(b, Rd(b, current, "prev"), "next", new_node)
  IN  Wr(c, current, "prev", new_node)

\* push_back without its ++size.
push_back_keeps_size(s, l, value) ==
  IF FreeNodes(s) = {} THEN Throw(s, "bad_alloc")
  ELSE LET new_node == NewAddr(s)
           s0 == Node(s, new_node, value)
       IN  IF s0.head[l] = NULL
           THEN [s0 EXCEPT !.head[l] = new_node, !.tail[l] = new_node]
           ELSE LinkAtTail(s0, l, new_node)

push_back(s, l, value) ==
  IF FreeNodes(s) = {} THEN Throw(s, "bad_alloc")
  ELSE LET new_node == NewAddr(s)
           s0 == Node(s, new_node, value)
           s1 == IF s0.head[l] = NULL
                 THEN [s0 EXCEPT !.head[l] = new_node, !.tail[l] = new_node]
                 ELSE LinkAtTail(s0, l, new_node)
       IN  IncSize(s1, l)

\* emplace_back that does not set the new node's prev.
emplace_back_no_prev(s, l, value) ==
  IF FreeNodes(s) = {} THEN Throw(s, "bad_alloc")
  ELSE LET new_node == NewAddr(s)
           s0 == Node(s, new_node, value)
           s1 == IF s0.tail[l] = NULL
                 THEN [s0 EXCEPT !.head[l] = new_node, !.tail[l] = new_node]
                 ELSE LinkAtTail_no_prev(s0, l, new_node)
       IN  [IncSize(s1, l) EXCEPT !.ret = new_node]

emplace_back(s, l, value) ==
  IF FreeNodes(s) = {} THEN Throw(s, "bad_alloc")
  ELSE LET new_node == NewAddr(s)
           s0 == Node(s, new_node, value)
           s1 == IF s0.tail[l] = NULL
                 THEN [s0 EXCEPT !.head[l] = new_node, !.tail[l] = new_node]
                 ELSE LinkAtTail(s0, l, new_node)
       IN  [IncSize(s1, l) EXCEPT !.ret = new_node]

\* push_front that also makes the new node the tail.
push_front_moves_tail(s, l, value) ==
  IF FreeNodes(s) = {} THEN Throw(s, "bad_alloc")
  ELSE LET new_node == NewAddr(s)
           s0 == Node(s, new_node, value)
           s1 == IF s0.head[l] = NULL
                 THEN [s0 EXCEPT !.head[l] = new_node, !.tail[l] = new_node]
                 ELSE [LinkAtHead(s0, l, new_node) EXCEPT !.tail[l] = new_node]
       IN  IncSize(s1, l)

push_front(s, l, value) ==
  IF FreeNodes(s) = {} THEN Throw(s, "bad_alloc")
  ELSE LET new_node == NewAddr(s)
           s0 == Node(s, new_node, value)
           s1 == IF s0.head[l] = NULL
                 THEN [s0 EXCEPT !.head[l] = new_node, !.tail[l] = new_node]
                 ELSE LinkAtHead(s0, l, new_node)
       IN  IncSize(s1, l)

\* emplace_front that counts the element before it allocates the node.
emplace_front_counts_first(s, l, value) ==
  IF FreeNodes(s) = {} THEN Throw(IncSize(s, l), "bad_alloc")
  ELSE LET new_node == NewAddr(s)
           s0 == Node(s, new_node, value)
           s1 == IF s0.head[l] = NULL
                 THEN [s0 EXCEPT !.head[l] = new_node, !.tail[l] = new_node]
                 ELSE LinkAtHead(s0, l, new_node)
       IN  [IncSize(s1, l) EXCEPT !.ret = new_node]

emplace_front(s, l, value) ==
  IF FreeNodes(s) = {} THEN Throw(s, "bad_alloc")
  ELSE LET new_node == NewAddr(s)
           s0 == Node(s, new_node, value)
           s1 == IF s0.head[l] = NULL
                 THEN [s0 EXCEPT !.head[l] = new_node, !.tail[l] = new_node]
                 ELSE LinkAtHead(s0, l, new_node)
       IN  [IncSize(s1, l) EXCEPT !.ret = new_node]

\* insert that ignores pos and appends.
insert_at_end(s, l, pos, value) ==
  IF FreeNodes(s) = {} THEN Throw(s, "bad_alloc")
  ELSE LET new_node == NewAddr(s)
           s0 == Node(s, new_node, value)
           s1 == IF s0.head[l] = NULL
                 THEN [s0 EXCEPT !.head[l] = new_node, !.tail[l] = new_node]
                 ELSE LinkAtTail(s0, l, new_node)
       IN  [IncSize(s1, l) EXCEPT !.ret = new_node]

\* insert(pos, value), all four single-element overloads; ret is the node the
\* returned iterator refers to.
insert(s, l, pos, value) ==
  IF FreeNodes(s) = {} THEN Throw(s, "bad_alloc")
  ELSE LET new_node == NewAddr(s)
           s0 == Node(s, new_node, value)
           current == pos
           s1 == IF current = NULL
                 THEN IF s0.head[l] = NULL
                      THEN [s0 EXCEPT !.head[l] = new_node, !.tail[l] = new_node]
                      ELSE LinkAtTail(s0, l, new_node)
                 ELSE IF current = s0.head[l]
                      THEN LET a == Wr(s0, new_node, "next", s0.head[l])
                               b == Wr(a, a.head[l], "prev", new_node)
                           IN  [b EXCEPT !.head[l] = new_node]
                      ELSE LinkBefore(s0, current, new_node)
       IN  [IncSize(s1, l) EXCEPT !.ret = new_node]

emplace(s, l, pos, value) ==
  IF FreeNodes(s) = {} THEN Throw(s, "bad_alloc")
  ELSE LET new_node == NewAddr(s)
           s0 == Node(s, new_node, value)
           current == pos
           s1 == IF current = NULL
                 THEN IF s0.head[l] = NULL
                      THEN [s0 EXCEPT !.head[l] = new_node, !.tail[l] = new_node]
                      ELSE LinkAtTail(s0, l, new_node)
                 ELSE IF current = s0.head[l]
                      THEN LET a == Wr(s0, new_node, "next", s0.head[l])
                               b == Wr(a, a.head[l], "prev", new_node)
                           IN  [b EXCEPT !.head[l] = new_node]
                      ELSE LinkBefore(s0, current, new_node)
       IN  [IncSize(s1, l) EXCEPT !.ret = new_node]

\* -------------------------------------------------------- single removal
\* pop_back that does not reset head when the last node goes.
pop_back_keeps_head(s, l) ==
  IF s.head[l] = NULL THEN s
  ELSE LET temp == s.tail[l]
           s0 == Chk(s, temp)
           s1 == [s0 EXCEPT !.tail[l] = Rd(s0, temp, "prev")]
           s2 == IF s1.tail[l] # NULL
                 THEN Wr(s1, s1.tail[l], "next", NULL)
                 ELSE s1
       IN  DecSize(Delete(s2, temp), l)

\* pop_back that leaves the new tail's next pointing at the deleted node.
pop_back_keeps_next(s, l) ==
  IF s.head[l] = NULL THEN s
  ELSE LET temp == s.tail[l]
           s0 == Chk(s, temp)
           s1 == [s0 EXCEPT !.tail[l] = Rd(s0, temp, "prev")]
           s2 == IF s1.tail[l] # NULL THEN s1
                 ELSE [s1 EXCEPT !.head[l] = NULL]
       IN  DecSize(Delete(s2, temp), l)

pop_back(s, l) ==
  IF s.head[l] = NULL THEN s
  ELSE LET temp == s.tail[l]
           s0 == Chk(s, temp)
           s1 == [s0 EXCEPT !.tail[l] = Rd(s0, temp, "prev")]
           s2 == IF s1.tail[l] # NULL
                 THEN Wr(s1, s1.tail[l], "next", NULL)
                 ELSE [s1 EXCEPT !.head[l] = NULL]
       IN  DecSize(Delete(s2, temp), l)

\* pop_front without its `if (!head) return;`.
pop_front_unguarded(s, l) ==
  LET temp == s.head[l]
      s0 == Chk(s, temp)
      s1 == [s0 EXCEPT !.head[l] = Rd(s0, temp, "next")]
      s2 == IF s1.head[l] # NULL
            THEN Wr(s1, s1.head[l], "prev", NULL)
            ELSE [s1 EXCEPT !.tail[l] = NULL]
  IN  DecSize(Delete(s2, temp), l)

\* pop_front without head->prev = nullptr.
pop_front_keeps_prev(s, l) ==
  IF s.head[l] = NULL THEN s
  ELSE LET temp == s.head[l]
           s0 == Chk(s, temp)
           s1 == [s0 EXCEPT !.head[l] = Rd(s0, temp, "next")]
           s2 == IF s1.head[l] # NULL
                 THEN s1
                 ELSE [s1 EXCEPT !.tail[l] = NULL]
       IN  DecSize(Delete(s2, temp), l)

\* pop_front that does not reset tail when the last node goes.
pop_front_keeps_tail(s, l) ==
  IF s.head[l] = NULL THEN s
  ELSE LET temp == s.head[l]
           s0 == Chk(s, temp)
           s1 == [s0 EXCEPT !.head[l] = Rd(s0, temp, "next")]
           s2 == IF s1.head[l] # NULL
                 THEN Wr(s1, s1.head[l], "prev", NULL)
                 ELSE s1
       IN  DecSize(Delete(s2, temp), l)

pop_front(s, l) ==
  IF s.head[l] = NULL THEN s
  ELSE LET temp == s.head[l]
           s0 == Chk(s, temp)
           s1 == [s0 EXCEPT !.head[l] = Rd(s0, temp, "next")]
           s2 == IF s1.head[l] # NULL
                 THEN Wr(s1, s1.head[l], "prev", NULL)
                 ELSE [s1 EXCEPT !.tail[l] = NULL]
       IN  DecSize(Delete(s2, temp), l)

\* erase(pos) whose tail case does not move tail to the previous node.
erase_keeps_tail(s, l, pos) ==
  LET current == pos IN
  IF current = NULL THEN [s EXCEPT !.ret = end(s, l)]
  ELSE LET s0 == Chk(s, current)
           next_node == Rd(s0, current, "next")
           s1 == IF current = s0.head[l]
                 THEN LET a == [s0 EXCEPT !.head[l] = Rd(s0, current, "next")]
                      IN  IF a.head[l] # NULL
                          THEN Wr(a, a.head[l], "prev", NULL)
                          ELSE [a EXCEPT !.tail[l] = NULL]
                 ELSE IF current = s0.tail[l]
                 THEN Wr(s0, s0.tail[l], "next", NULL)
                 ELSE LET a == Wr(s0, Rd(s0, current, "prev"), "next",
                                  Rd(s0, current, "next"))
                      IN  Wr(a, Rd(a, current, "next"), "prev",
                             Rd(a, current, "prev"))
       IN  [DecSize(Delete(s1, current), l) EXCEPT !.ret = next_node]

\* erase(pos) that counts a removal also when pos is the sentinel.
erase_sentinel_counts(s, l, pos) ==
  LET current == pos IN
  IF current = NULL THEN [DecSize(s, l) EXCEPT !.ret = end(s, l)]
  ELSE LET s0 == Chk(s, current)
           next_node == Rd(s0, current, "next")
           s1 == IF current = s0.head[l]
                 THEN LET a == [s0 EXCEPT !.head[l] = Rd(s0, current, "next")]
                      IN  IF a.head[l] # NULL
                          THEN Wr(a, a.head[l], "prev", NULL)
                          ELSE [a EXCEPT !.tail[l] = NULL]
                 ELSE IF current = s0.tail[l]
                 THEN LET a == [s0 EXCEPT !.tail[l] = Rd(s0, s0.tail[l], "prev")]
                      IN  IF a.tail[l] # NULL
                          THEN Wr(a, a.tail[l], "next", NULL)
                          ELSE [a EXCEPT !.head[l] = NULL]
                 ELSE LET a == Wr(s0, Rd(s0, current, "prev"), "next",
                                  Rd(s0, current, "next"))
                      IN  Wr(a, Rd(a, current, "next"), "prev",
                             Rd(a, current, "prev"))
       IN  [DecSize(Delete(s1, current), l) EXCEPT !.ret = next_node]

\* erase(pos) whose head case does not reset tail when the last node goes.
erase_head_keeps_tail(s, l, pos) ==
  LET current == pos IN
  IF current = NULL THEN [s EXCEPT !.ret = end(s, l)]
  ELSE LET s0 == Chk(s, current)
           next_node == Rd(s0, current, "next")
           s1 == IF current = s0.head[l]
                 THEN LET a == [s0 EXCEPT !.head[l] = Rd(s0, current, "next")]
                      IN  IF a.head[l] # NULL
                          THEN Wr(a, a.head[l], "prev", NULL)
                          ELSE a
                 ELSE IF current = s0.tail[l]
                 THEN LET a == [s0 EXCEPT !.tail[l] = Rd(s0, s0.tail[l], "prev")]
                      IN  IF a.tail[l] # NULL
                          THEN Wr(a, a.tail[l], "next", NULL)
                          ELSE [a EXCEPT !.head[l] = NULL]
                 ELSE LET a == Wr(s0, Rd(s0, current, "prev"), "next",
                                  Rd(s0, current, "next"))
                      IN  Wr(a, Rd(a, current, "next"), "prev",
                             Rd(a, current, "prev"))
       IN  [DecSize(Delete(s1, current), l) EXCEPT !.ret = next_node]

\* erase(pos) that returns the node before the erased one.
erase_returns_prev(s, l, pos) ==
  LET current == pos IN
  IF current = NULL THEN [s EXCEPT !.ret = end(s, l)]
  ELSE LET s0 == Chk(s, current)
           prev_node == Rd(s0, current, "prev")
           s1 == IF current = s0.head[l]
                 THEN LET a == [s0 EXCEPT !.head[l] = Rd(s0, current, "next")]
                      IN  IF a.head[l] # NULL
                          THEN Wr(a, a.head[l], "prev", NULL)
                          ELSE [a EXCEPT !.tail[l] = NULL]
                 ELSE IF current = s0.tail[l]
                 THEN LET a == [s0 EXCEPT !.tail[l] = Rd(s0, s0.tail[l], "prev")]
                      IN  IF a.tail[l] # NULL
                          THEN Wr(a, a.tail[l], "next", NULL)
                          ELSE [a EXCEPT !.head[l] = NULL]
                 ELSE LET a == Wr(s0, Rd(s0, current, "prev"), "next",
                                  Rd(s0, current, "next"))
                      IN  Wr(a, Rd(a, current, "next"), "prev",
                             Rd(a, current, "prev"))
       IN  [DecSize(Delete(s1, current), l) EXCEPT !.ret = prev_node]

\* erase(pos) that deletes a middle node without joining its neighbours.
erase_no_relink(s, l, pos) ==
  LET current == pos IN
  IF current = NULL THEN [s EXCEPT !.ret = end(s, l)]
  ELSE LET s0 == Chk(s, current)
           next_node == Rd(s0, current, "next")
           s1 == IF current = s0.head[l]
                 THEN LET a == [s0 EXCEPT !.head[l] = Rd(s0, current, "next")]
                      IN  IF a.head[l] # NULL
                          THEN Wr(a, a.head[l], "prev", NULL)
                          ELSE [a EXCEPT !.tail[l] = NULL]
                 ELSE IF current = s0.tail[l]
                 THEN LET a == [s0 EXCEPT !.tail[l] = Rd(s0, s0.tail[l], "prev")]
                      IN  IF a.tail[l] # NULL
                          THEN Wr(a, a.tail[l], "next", NULL)
                          ELSE [a EXCEPT !.head[l] = NULL]
                 ELSE s0
       IN  [DecSize(Delete(s1, current), l) EXCEPT !.ret = next_node]

\* erase(pos); ret is the node the returned iterator refers to.
erase(s, l, pos) ==
  LET current == pos IN
  IF current = NULL THEN [s EXCEPT !.ret = end(s, l)]
  ELSE LET s0 == Chk(s, current)
           next_node == Rd(s0, current, "next")
           s1 == IF current = s0.head[l]
                 THEN LET a == [s0 EXCEPT !.head[l] = Rd(s0, current, "next")]
                      IN  IF a.head[l] # NULL
                          THEN Wr(a, a.head[l], "prev", NULL)
                          ELSE [a EXCEPT !.tail[l] = NULL]
                 ELSE IF current = s0.tail[l]
                 THEN LET a == [s0 EXCEPT !.tail[l] = Rd(s0, s0.tail[l], "prev")]
                      IN  IF a.tail[l] # NULL
                          THEN Wr(a, a.tail[l], "next", NULL)
                          ELSE [a EXCEPT !.head[l] = NULL]
                 ELSE LET a == Wr(s0, Rd(s0, current, "prev"), "next",
                                  Rd(s0, current, "next"))
                      IN  Wr(a, Rd(a, current, "next"), "prev",
                             Rd(a, current, "prev"))
       IN  [DecSize(Delete(s1, current), l) EXCEPT !.ret = next_node]

\* clear(): the loop deletes one live node per round, so it ends; it stops on a
\* `current` that is not a live node (reading current->next is undefined).
RECURSIVE clearLoop(_, _)
clearLoop(s, current) ==
  IF current = NULL THEN s
  ELSE IF ~Valid(s, current) THEN Undefined(s)
  ELSE LET tmp == Rd(s, current, "next")
       IN  clearLoop(Delete(s, current), tmp)

\* clear() without head = tail = nullptr.
clear_keeps_head(s, l) ==
  LET s1 == clearLoop(s, s.head[l])
  IN  [s1 EXCEPT !.size[l] = 0]

clear(s, l) ==
  LET s1 == clearLoop(s, s.head[l])
  IN  [s1 EXCEPT !.head[l] = NULL, !.tail[l] = NULL, !.size[l] = 0]

\* ------------------------------------------------- multi-element members
\* A loop of the source stops when a call in its body throws.  A loop whose
\* state does not change from one round to the next never exits: "diverges".
Diverges(s) == [s EXCEPT !.exc = "diverges"]

\* for (i = 0; i < count; ++i) push_back(value);
RECURSIVE pushLoop(_, _, _, _)
pushLoop(s, l, n, value) ==
  IF n = 0 \/ s.exc # "none" THEN s
  ELSE pushLoop(push_back(s, l, value), l, n - 1, value)

\* for (elem : list) push_back(elem);   while (first != last) push_back(*first++);
RECURSIVE pushAll(_, _, _)
pushAll(s, l, rg) ==
  IF rg = <<>> \/ s.exc # "none" THEN s
  ELSE pushAll(push_back(s, l, Head(rg)), l, Tail(rg))

\* for (Node* current = other.head; current; current = current->next)
\*     push_back(current->data);
RECURSIVE copyLoop(_, _, _)
copyLoop(s, l, current) ==
  IF current = NULL \/ s.exc # "none" THEN s
  ELSE IF ~Valid(s, current) THEN Undefined(s)
  ELSE LET s1 == push_back(s, l, Rd(s, current, "data"))
       IN  copyLoop(s1, l, Rd(s1, current, "next"))

\* operator=(List&&) that does not reset other.
move_assign_keeps_other(s, l, other) ==
  IF l # other
  THEN LET s1 == clear(s, l)
       IN  [s1 EXCEPT !.head[l] = s1.head[other], !.tail[l] = s1.tail[other],
                      !.size[l] = s1.size[other]]
  ELSE s

\* operator=(List&&) without its clear(): the nodes the list held stay allocated.
move_assign_no_clear(s, l, other) ==
  IF l # other
  THEN LET s2 == [s EXCEPT !.head[l] = s.head[other], !.tail[l] = s.tail[other],
                           !.size[l] = s.size[other]]
       IN  [s2 EXCEPT !.head[other] = NULL, !.tail[other] = NULL, !.size[other] = 0]
  ELSE s

\* operator=(List&& other)
move_assign(s, l, other) ==
  IF l # other
  THEN LET s1 == clear(s, l)
           s2 == [s1 EXCEPT !.head[l] = s1.head[other], !.tail[l] = s1.tail[other],
                            !.size[l] = s1.size[other]]
       IN  [s2 EXCEPT !.head[other] = NULL, !.tail[other] = NULL, !.size[other] = 0]
  ELSE s

\* operator=(const List&) that adopts other's nodes instead of copying them.
copy_assign_shallow(s, l, other) ==
  IF l # other
  THEN LET s1 == clear(s, l)
       IN  [s1 EXCEPT !.head[l] = s1.head[other], !.tail[l] = s1.tail[other],
                      !.size[l] = s1.size[other]]
  ELSE s

\* operator=(const List&) that copies with push_front.
RECURSIVE copyLoop_front(_, _, _)
copyLoop_front(s, l, current) ==
  IF current = NULL \/ s.exc # "none" THEN s
  ELSE IF ~Valid(s, current) THEN Undefined(s)
  ELSE copyLoop_front(push_front(s, l, Rd(s, current, "data")), l,
                      Rd(s, current, "next"))

copy_assign_reversed(s, l, other) ==
  IF l # other
  THEN LET s1 == clear(s, l) IN copyLoop_front(s1, l, s1.head[other])
  ELSE s

\* operator=(const List&) without its `this != &other` test.
copy_assign_unguarded(s, l, other) ==
  LET s1 == clear(s, l) IN copyLoop(s1, l, s1.head[other])

\* operator=(const List& other)
copy_assign(s, l, other) ==
  IF l # other
  THEN LET s1 == clear(s, l) IN copyLoop(s1, l, s1.head[other])
  ELSE s

\* operator=(std::initializer_list)
ilist_assign(s, l, list) == pushAll(clear(s, l), l, list)

\* assign(count, value)
assign(s, l, count, value) == pushLoop(clear(s, l), l, count, value)

\* assign(first, last) without its clear().
assign_range_no_clear(s, l, rg) == pushAll(s, l, rg)

\* assign(first, last) over a range outside the list
assign_range(s, l, rg) == pushAll(clear(s, l), l, rg)

\* assign(count, value) with value a reference to the element of node p:
\* clear(); then each round reads value through the reference for push_back.
assign_alias(s, l, count, p) ==
  LET RECURSIVE loop(_, _)
      loop(s1, i) ==
        IF ~(i < count) \/ s1.exc # "none" THEN s1
        ELSE IF ~Valid(s1, p) THEN Undefined(s1)
        ELSE loop(push_back(s1, l, Rd(s1, p, "data")), i + 1)
  IN  loop(clear(s, l), 0)

\* assign(first, last) with first and last iterators of a list:
\* clear(); while (first != last) push_back(*first++);
assign_range_alias(s, l, first, last) ==
  LET RECURSIVE loop(_, _)
      loop(s1, it) ==
        IF it = last \/ s1.exc # "none" THEN s1
        ELSE IF ~Valid(s1, it) THEN Undefined(s1)
        ELSE loop(push_back(s1, l, Rd(s1, it, "data")), Rd(s1, it, "next"))
  IN  loop(clear(s, l), first)

\* assign(std::initializer_list)
assign_ilist(s, l, ilist) == pushAll(clear(s, l), l, ilist)

\* insert(pos, count, value) that inserts every copy before the original pos.
RECURSIVE insert_count_at_pos(_, _, _, _, _)
insert_count_at_pos(s, l, pos, count, value) ==
  IF count = 0 THEN [s EXCEPT !.ret = pos]
  ELSE LET s1 == insert(s, l, pos, value)
       IN  IF s1.exc # "none" \/ count = 1 THEN s1
           ELSE insert_count_at_pos(s1, l, pos, count - 1, value)

\* iter = pos; for (i = 0; i < count; ++i) iter = insert(iter, value); return iter;
RECURSIVE insert_count(_, _, _, _, _)
insert_count(s, l, pos, count, value) ==
  IF count = 0 THEN [s EXCEPT !.ret = pos]
  ELSE LET s1 == insert(s, l, pos, value)
       IN  IF s1.exc # "none" THEN s1
           ELSE insert_count(s1, l, s1.ret, count - 1, value)

\* Range insert that returns the node of the first element inserted.
RECURSIVE insert_range_first(_, _, _, _)
insert_range_first(s, l, pos, rg) ==
  IF rg = <<>> THEN [s EXCEPT !.ret = pos]
  ELSE LET s1 == insert(s, l, pos, Head(rg))
           s2 == insert_range_first(s1, l, s1.ret, Tail(rg))
       IN  IF s1.exc # "none" THEN s1
           ELSE IF s2.exc # "none" THEN s2
           ELSE [s2 EXCEPT !.ret = s1.ret]

\* iter = pos; while (first != last) { iter = insert(iter, *first); ++first; }
\* return iter;
RECURSIVE insert_range(_, _, _, _)
insert_range(s, l, pos, rg) ==
  IF rg = <<>> THEN [s EXCEPT !.ret = pos]
  ELSE LET s1 == insert(s, l, pos, Head(rg))
       IN  IF s1.exc # "none" THEN s1
           ELSE insert_range(s1, l, s1.ret, Tail(rg))

\* insert(pos, ilist): return insert(pos, ilist.begin(), ilist.end());
insert_ilist(s, l, pos, ilist) == insert_range(s, l, pos, ilist)

\* erase(first, last) with `if` for `while`: at most one node goes.
erase_range_once(s, l, first, last) ==
  IF first = last THEN [s EXCEPT !.ret = last]
  ELSE [erase(s, l, first) EXCEPT !.ret = last]

\* while (first != last) first = erase(first); return last;
\* erase(end()) changes nothing and returns end(): once first is the sentinel
\* and last is not, no round changes the loop's state.
RECURSIVE erase_range(_, _, _, _)
erase_range(s, l, first, last) ==
  IF first = last THEN [s EXCEPT !.ret = last]
  ELSE IF first = NULL THEN Diverges(s)
  ELSE LET s1 == erase(s, l, first)
       IN  IF s1.exc # "none" THEN s1
           ELSE erase_range(s1, l, s1.ret, last)

\* for (auto&& elem : rg) emplace_back(elem);
RECURSIVE append_range(_, _, _)
append_range(s, l, rg) ==
  IF rg = <<>> \/ s.exc # "none" THEN [s EXCEPT !.ret = NULL]
  ELSE append_range(emplace_back(s, l, Head(rg)), l, Tail(rg))

\* prepend_range that walks the range from begin to end.
RECURSIVE prepend_range_forward(_, _, _)
prepend_range_forward(s, l, rg) ==
  IF rg = <<>> \/ s.exc # "none" THEN [s EXCEPT !.ret = NULL]
  ELSE prepend_range_forward(emplace_front(s, l, Head(rg)), l, Tail(rg))

\* for (it = rbegin(rg); it != rend(rg); ++it) emplace_front(*it);
RECURSIVE prepend_range(_, _, _)
prepend_range(s, l, rg) ==
  IF rg = <<>> \/ s.exc # "none" THEN [s EXCEPT !.ret = NULL]
  ELSE prepend_range(emplace_front(s, l, rg[Len(rg)]), l, SubSeq(rg, 1, Len(rg) - 1))

\* resize's shrinking loop with pop_front for pop_back.
RECURSIVE shrinkLoop_front(_, _, _)
shrinkLoop_front(s, l, count) ==
  IF ~(s.size[l] > count) \/ s.exc # "none" THEN s
  ELSE IF s.head[l] = NULL THEN Diverges(s)
  ELSE shrinkLoop_front(pop_front(s, l), l, count)

\* while (size > count) pop_back();  pop_back() on a list with a null head
\* changes nothing, so the loop would not exit.
RECURSIVE shrinkLoop(_, _, _)
shrinkLoop(s, l, count) ==
  IF ~(s.size[l] > count) \/ s.exc # "none" THEN s
  ELSE IF s.head[l] = NULL THEN Diverges(s)
  ELSE shrinkLoop(pop_back(s, l), l, count)

\* while (size < count) emplace_back(value);
RECURSIVE growLoop(_, _, _, _)
growLoop(s, l, count, value) ==
  IF ~(s.size[l] < count) \/ s.exc # "none" THEN [s EXCEPT !.ret = NULL]
  ELSE growLoop(emplace_back(s, l, value), l, count, value)

\* resize(count, value)
resize_value(s, l, count, value) ==
  IF count < s.size[l] THEN shrinkLoop(s, l, count)
  ELSE IF count > s.size[l] THEN growLoop(s, l, count, value)
  ELSE s

\* resize(count): grows with emplace_back(), which stores T()
resize(s, l, count) ==
  IF count < s.size[l] THEN shrinkLoop(s, l, count)
  ELSE IF count > s.size[l] THEN growLoop(s, l, count, DefaultValue)
  ELSE s

\* swap(other) without swap(size, other.size).
swap_keeps_size(s, l, other) ==
  [s EXCEPT !.head[l] = s.head[other], !.head[other] = s.head[l],
            !.tail[l] = s.tail[other], !.tail[other] = s.tail[l]]

\* swap(other)
swap(s, l, other) ==
  [s EXCEPT !.head[l] = s.head[other], !.head[other] = s.head[l],
            !.tail[l] = s.tail[other], !.tail[other] = s.tail[l],
            !.size[l] = s.size[other], !.size[other] = s.size[l]]

\* ---------------------------------------------------------- state machine
\* The record of a call: its name, its position and value arguments, the
\* size of the list when it was made, what it returned (a node for insert and
\* erase, a value for front and back) and the exception it ended with.
CallRec(name, pos, val, s, r) ==
  [op |-> name, pos |-> pos, val |-> val, sz0 |-> s.size["lst"],
   ret |-> r.ret, exc |-> r.exc]

NoCall == [op |-> "List", pos |-> NULL, val |-> DefaultValue, sz0 |-> 0,
           ret |-> NULL, exc |-> "none"]

\* List(): head(nullptr), tail(nullptr), size(0), for both lists; the cells of
\* `held` are in use elsewhere.
Start(held) ==
  /\ heap = [p \in Ptr |-> Poison]
  /\ live = held
  /\ head = [l \in Lists |-> NULL]
  /\ tail = [l \in Lists |-> NULL]
  /\ size = [l \in Lists |-> 0]
  /\ call = NoCall
  /\ abs = <<>>
  /\ pushed = <<>>
  /\ popped = <<>>
  /\ phase = "push"

\* The free store is the program's: every cell is free,
Init == Start({})

\* or the rest of the program holds the last one, and `new` fails one node
\* sooner.
Held == {MaxNodes}
InitHeld == Start(Held)

\* The state after a call that ended in store r.
Do(r) ==
  /\ heap' = r.heap
  /\ live' = r.live
  /\ head' = r.head
  /\ tail' = r.tail
  /\ size' = r.size

\* The history variables; only the scenario specifications write them.
Hist == <<call, abs, pushed, popped, phase>>

\* The positions a caller may pass for list l: its nodes and the sentinel.
Positions(l) == Range(FwdNodes(S, l)) \cup {NULL}

\* The positions reachable from first by forward traversal, and the sentinel.
From(first) == Range(Walk(heap, "next", first, MaxNodes + 1)) \cup {NULL}

\* The input ranges passed to the range members: the prefixes of one source
\* container whose neighbouring elements differ, so that order shows.
Source == [i \in 1..MaxCount |-> i % (MaxVal + 1)]
Ranges == {SubSeq(Source, 1, k) : k \in 0..MaxCount}

PushBack == \E l \in Lists, v \in Values :
  Do(push_back(S, l, v)) /\ UNCHANGED Hist

PushFront == \E l \in Lists, v \in Values :
  Do(push_front(S, l, v)) /\ UNCHANGED Hist

EmplaceBack == \E l \in Lists, v \in Values :
  Do(emplace_back(S, l, v)) /\ UNCHANGED Hist

EmplaceFront == \E l \in Lists, v \in Values :
  Do(emplace_front(S, l, v)) /\ UNCHANGED Hist

Insert == \E l \in Lists, v \in Values : \E pos \in Positions(l) :
  Do(insert(S, l, pos, v)) /\ UNCHANGED Hist

Emplace == \E l \in Lists, v \in Values : \E pos \in Positions(l) :
  Do(emplace(S, l, pos, v)) /\ UNCHANGED Hist

PopBack == \E l \in Lists :
  Do(pop_back(S, l)) /\ UNCHANGED Hist

PopFront == \E l \in Lists :
  Do(pop_front(S, l)) /\ UNCHANGED Hist

Erase == \E l \in Lists : \E pos \in Positions(l) :
  Do(erase(S, l, pos)) /\ UNCHANGED Hist

EraseRange == \E l \in Lists : \E first \in Positions(l) : \E last \in From(first) :
  Do(erase_range(S, l, first, last))
  /\ UNCHANGED Hist

Clear == \E l \in Lists :
  Do(clear(S, l)) /\ UNCHANGED Hist

Front == \E l \in Lists :
  Do(front(S, l)) /\ UNCHANGED Hist

Back == \E l \in Lists :
  Do(back(S, l)) /\ UNCHANGED Hist

GetSize == \E l \in Lists :
  Do([S EXCEPT !.ret = getSize(S, l)]) /\ UNCHANGED Hist

Empty == \E l \in Lists :
  Do([S EXCEPT !.ret = empty(S, l)]) /\ UNCHANGED Hist

Assign == \E l \in Lists, n \in 0..MaxCount, v \in Values :
  Do(assign(S, l, n, v)) /\ UNCHANGED Hist

AssignRange == \E l \in Lists, rg \in Ranges :
  Do(assign_range(S, l, rg)) /\ UNCHANGED Hist

AssignIlist == \E l \in Lists, rg \in Ranges :
  Do(assign_ilist(S, l, rg)) /\ UNCHANGED Hist

IlistAssign == \E l \in Lists, rg \in Ranges :
  Do(ilist_assign(S, l, rg)) /\ UNCHANGED Hist

MoveAssign == \E l \in Lists, other \in Lists :
  Do(move_assign(S, l, other)) /\ UNCHANGED Hist

CopyAssign == \E l \in Lists, other \in Lists :
  Do(copy_assign(S, l, other)) /\ UNCHANGED Hist

InsertCount == \E l \in Lists, n \in 0..MaxCount, v \in Values : \E pos \in Positions(l) :
  Do(insert_count(S, l, pos, n, v))
  /\ UNCHANGED Hist

InsertRange == \E l \in Lists, rg \in Ranges : \E pos \in Positions(l) :
  Do(insert_range(S, l, pos, rg))
  /\ UNCHANGED Hist

InsertIlist == \E l \in Lists, rg \in Ranges : \E pos \in Positions(l) :
  Do(insert_ilist(S, l, pos, rg))
  /\ UNCHANGED Hist

AppendRange == \E l \in Lists, rg \in Ranges :
  Do(append_range(S, l, rg)) /\ UNCHANGED Hist

PrependRange == \E l \in Lists, rg \in Ranges :
  Do(prepend_range(S, l, rg)) /\ UNCHANGED Hist

Resize == \E l \in Lists, n \in 0..MaxCount :
  Do(resize(S, l, n)) /\ UNCHANGED Hist

ResizeValue == \E l \in Lists, n \in 0..MaxCount, v \in Values :
  Do(resize_value(S, l, n, v)) /\ UNCHANGED Hist

Swap == \E l \in Lists, other \in Lists :
  Do(swap(S, l, other)) /\ UNCHANGED Hist

Next ==
  \/ PushBack \/ PushFront \/ EmplaceBack \/ EmplaceFront
  \/ Insert \/ Emplace \/ PopBack \/ PopFront \/ Erase \/ EraseRange \/ Clear
  \/ Front \/ Back \/ GetSize \/ Empty
  \/ Assign \/ AssignRange \/ AssignIlist \/ IlistAssign
  \/ MoveAssign \/ CopyAssign
  \/ InsertCount \/ InsertRange \/ InsertIlist
  \/ AppendRange \/ PrependRange \/ Resize \/ ResizeValue \/ Swap

Spec == InitHeld /\ [][Next]_vars

\* ------------------------------------------- one list beside a sequence
\* The scenario of a single list, lst, driven through its single-element
\* members while an abstract sequence, abs, is driven through the
\* corresponding sequence operations: append, prepend, drop-last, drop-first,
\* insert-at-index, remove-at-index, reset.  An abstract operation is applied
\* when the member returns normally (a failed allocation inserts nothing).
InsertAt(q, i, x) == SubSeq(q, 1, i - 1) \o <<x>> \o SubSeq(q, i, Len(q))
RemoveAt(q, i) == SubSeq(q, 1, i - 1) \o SubSeq(q, i + 1, Len(q))
DropLast(q) == IF q = <<>> THEN q ELSE SubSeq(q, 1, Len(q) - 1)
DropFirst(q) == IF q = <<>> THEN q ELSE Tail(q)

\* The index of position p in the traversal q: Len(q) + 1 for the sentinel.
IndexOf(q, p) ==
  IF p \in Range(q) THEN CHOOSE i \in 1..Len(q) : q[i] = p ELSE Len(q) + 1

Returned(r) == r.exc = "none"

OnePushBack == \E v \in Values :
  LET r == push_back(S, "lst", v) IN
  /\ Do(r) /\ call' = CallRec("push_back", NULL, v, S, r)
  /\ abs' = IF Returned(r) THEN Append(abs, v) ELSE abs
  /\ UNCHANGED <<pushed, popped, phase>>

OnePushFront == \E v \in Values :
  LET r == push_front(S, "lst", v) IN
  /\ Do(r) /\ call' = CallRec("push_front", NULL, v, S, r)
  /\ abs' = IF Returned(r) THEN <<v>> \o abs ELSE abs
  /\ UNCHANGED <<pushed, popped, phase>>

OnePopBack ==
  LET r == pop_back(S, "lst") IN
  /\ Do(r) /\ call' = CallRec("pop_back", NULL, DefaultValue, S, r)
  /\ abs' = IF Returned(r) THEN DropLast(abs) ELSE abs
  /\ UNCHANGED <<pushed, popped, phase>>

OnePopFront ==
  LET r == pop_front(S, "lst") IN
  /\ Do(r) /\ call' = CallRec("pop_front", NULL, DefaultValue, S, r)
  /\ abs' = IF Returned(r) THEN DropFirst(abs) ELSE abs
  /\ UNCHANGED <<pushed, popped, phase>>

OneInsert == \E v \in Values : \E pos \in Positions("lst") :
  LET r == insert(S, "lst", pos, v) IN
  /\ Do(r) /\ call' = CallRec("insert", pos, v, S, r)
  /\ abs' = IF Returned(r)
            THEN InsertAt(abs, IndexOf(FwdNodes(S, "lst"), pos), v) ELSE abs
  /\ UNCHANGED <<pushed, popped, phase>>

OneErase == \E pos \in Positions("lst") :
  LET r == erase(S, "lst", pos) IN
  /\ Do(r) /\ call' = CallRec("erase", pos, DefaultValue, S, r)
  /\ abs' = IF Returned(r) /\ pos # NULL
            THEN RemoveAt(abs, IndexOf(FwdNodes(S, "lst"), pos)) ELSE abs
  /\ UNCHANGED <<pushed, popped, phase>>

OneClear ==
  LET r == clear(S, "lst") IN
  /\ Do(r) /\ call' = CallRec("clear", NULL, DefaultValue, S, r)
  /\ abs' = IF Returned(r) THEN <<>> ELSE abs
  /\ UNCHANGED <<pushed, popped, phase>>

OneFront ==
  LET r == front(S, "lst") IN
  /\ Do(r) /\ call' = CallRec("front", NULL, DefaultValue, S, r)
  /\ UNCHANGED <<abs, pushed, popped, phase>>

OneBack ==
  LET r == back(S, "lst") IN
  /\ Do(r) /\ call' = CallRec("back", NULL, DefaultValue, S, r)
  /\ UNCHANGED <<abs, pushed, popped, phase>>

NextOne ==
  \/ OnePushBack \/ OnePushFront \/ OnePopBack \/ OnePopFront
  \/ OneInsert \/ OneErase \/ OneClear \/ OneFront \/ OneBack

SpecOne == InitHeld /\ [][NextOne]_vars

\* --------------------------------------------------------- the round trip
\* n push_back calls on the empty lst, then n rounds of back() and pop_back().
\* The other list may hold a node already, so that lst's nodes do not always
\* get the same addresses.
Empty0 == [heap |-> [p \in Ptr |-> Poison], live |-> {},
           head |-> [l \in Lists |-> NULL], tail |-> [l \in Lists |-> NULL],
           size |-> [l \in Lists |-> 0], exc |-> "none", ret |-> NULL]

InitRT ==
  \E seed \in SeqsUpTo(Values, 1) :
    LET s0 == pushAll(Empty0, "another_lst", seed) IN
    /\ heap = s0.heap /\ live = s0.live
    /\ head = s0.head /\ tail = s0.tail /\ size = s0.size
    /\ call = NoCall /\ abs = <<>>
    /\ pushed = <<>> /\ popped = <<>> /\ phase = "push"

\* The value a call of back() gave the caller: none (-1) when it threw.
ValueRead(r) == IF Returned(r) THEN r.ret ELSE -1

RTPush == \E v \in Values :
  LET r == push_back(S, "lst", v) IN
  /\ phase = "push" /\ FreeNodes(S) # {}
  /\ Do(r) /\ call' = CallRec("push_back", NULL, v, S, r)
  /\ pushed' = Append(pushed, v)
  /\ UNCHANGED <<abs, popped, phase>>

RTBack ==
  LET r == back(S, "lst") IN
  /\ phase \in {"push", "popped"} /\ Len(popped) < Len(pushed)
  /\ Do(r) /\ call' = CallRec("back", NULL, DefaultValue, S, r)
  /\ popped' = Append(popped, ValueRead(r))
  /\ phase' = "read"
  /\ UNCHANGED <<abs, pushed>>

RTPopBack ==
  LET r == pop_back(S, "lst") IN
  /\ phase = "read"
  /\ Do(r) /\ call' = CallRec("pop_back", NULL, DefaultValue, S, r)
  /\ phase' = "popped"
  /\ UNCHANGED <<abs, pushed, popped>>

NextRT == RTPush \/ RTBack \/ RTPopBack

SpecRT == InitRT /\ [][NextRT]_vars

\* ------------------------------------------------- multi-element edits
\* The scenario of a single list, lst, built with push_back and push_front
\* and then edited by one call of the count, range or initializer-list
\* overload of insert or of erase(first, last), last reachable from first.
\* The call record holds the arguments: pos (first, for erase), last, the
\* count n, the value and the input range, and the size before the call.
EditRec(name, pos, last, n, val, rg, r) ==
  [op |-> name, pos |-> pos, last |-> last, n |-> n, val |-> val, rg |-> rg,
   sz0 |-> size["lst"], ret |-> r.ret, exc |-> r.exc]

\* The calls that build lst in the scenarios below, each of which ends the
\* building phase with the call or the loop it is about.
BuildPushBack == \E v \in Values :
  /\ phase = "push"
  /\ Do(push_back(S, "lst", v))
  /\ UNCHANGED Hist

BuildPushFront == \E v \in Values :
  /\ phase = "push"
  /\ Do(push_front(S, "lst", v))
  /\ UNCHANGED Hist

EdInsertCount == \E n \in 0..MaxCount, v \in Values : \E pos \in Positions("lst") :
  LET r == insert_count(S, "lst", pos, n, v) IN
  /\ phase = "push" /\ phase' = "edited"
  /\ Do(r) /\ call' = EditRec("insert_count", pos, NULL, n, v, <<>>, r)
  /\ UNCHANGED <<abs, pushed, popped>>

EdInsertRange == \E rg \in Ranges : \E pos \in Positions("lst") :
  LET r == insert_range(S, "lst", pos, rg) IN
  /\ phase = "push" /\ phase' = "edited"
  /\ Do(r) /\ call' = EditRec("insert_range", pos, NULL, 0, DefaultValue, rg, r)
  /\ UNCHANGED <<abs, pushed, popped>>

EdInsertIlist == \E rg \in Ranges : \E pos \in Positions("lst") :
  LET r == insert_ilist(S, "lst", pos, rg) IN
  /\ phase = "push" /\ phase' = "edited"
  /\ Do(r) /\ call' = EditRec("insert_ilist", pos, NULL, 0, DefaultValue, rg, r)
  /\ UNCHANGED <<abs, pushed, popped>>

EdEraseRange == \E first \in Positions("lst") : \E last \in From(first) :
  LET r == erase_range(S, "lst", first, last) IN
  /\ phase = "push" /\ phase' = "edited"
  /\ Do(r) /\ call' = EditRec("erase_range", first, last, 0, DefaultValue, <<>>, r)
  /\ UNCHANGED <<abs, pushed, popped>>

NextEdit ==
  \/ BuildPushBack \/ BuildPushFront
  \/ EdInsertCount \/ EdInsertRange \/ EdInsertIlist \/ EdEraseRange

SpecEdit == Init /\ [][NextEdit]_vars

\* ---------------------------------------------------------- destruction
\* The scenario of a list built by single-element members and then
\* destroyed: ~List() calls clear(), whose loop is run here one round per
\* step.  The call record holds the loop's cursor, the number of rounds done
\* and the size the list had when the destructor was entered.
DtorRec(current, steps, sz0, exc) ==
  [op |-> "~List", current |-> current, steps |-> steps, sz0 |-> sz0,
   exc |-> exc]

\* One round of clear()'s loop with the cursor left on the deleted node.
clearRound_no_advance(s, current) ==
  IF ~Valid(s, current) THEN Undefined(s)
  ELSE [Delete(s, current) EXCEPT !.ret = current]

\* Node* tmp = current->next; delete current; current = tmp;   (ret: current)
clearRound(s, current) ==
  IF ~Valid(s, current) THEN Undefined(s)
  ELSE LET tmp == Rd(s, current, "next")
       IN  [Delete(s, current) EXCEPT !.ret = tmp]

DtInsert == \E v \in Values : \E pos \in Positions("lst") :
  /\ phase = "push"
  /\ Do(insert(S, "lst", pos, v))
  /\ UNCHANGED Hist

DtErase == \E pos \in Positions("lst") :
  /\ phase = "push"
  /\ Do(erase(S, "lst", pos))
  /\ UNCHANGED Hist

\* ~List() { clear(); } entered: Node* current = head;
DtEnter ==
  /\ phase = "push" /\ phase' = "clearing"
  /\ call' = DtorRec(head["lst"], 0, size["lst"], "none")
  /\ UNCHANGED <<heap, live, head, tail, size, abs, pushed, popped>>

\* while (current) { ... }
DtRound ==
  LET r == clearRound(S, call.current) IN
  /\ phase = "clearing" /\ call.exc = "none" /\ call.current # NULL
  /\ Do(r)
  /\ call' = DtorRec(r.ret, call.steps + 1, call.sz0, r.exc)
  /\ UNCHANGED <<abs, pushed, popped, phase>>

\* head = tail = nullptr; size = 0;
DtExit ==
  /\ phase = "clearing" /\ call.exc = "none" /\ call.current = NULL
  /\ phase' = "destroyed"
  /\ head' = [head EXCEPT !["lst"] = NULL]
  /\ tail' = [tail EXCEPT !["lst"] = NULL]
  /\ size' = [size EXCEPT !["lst"] = 0]
  /\ UNCHANGED <<heap, live, call, abs, pushed, popped>>

NextDtor ==
  \/ BuildPushBack \/ BuildPushFront \/ DtInsert \/ DtErase
  \/ DtEnter \/ DtRound \/ DtExit

\* A destructor that was entered keeps running: its rounds and its exit are
\* taken when they can be.
SpecDtor ==
  Init /\ [][NextDtor]_vars /\ WF_vars(DtRound) /\ WF_vars(DtExit)

\* ----------------------------------------------------------- assignment
\* The scenario of two lists built with push_back and push_front and then
\* one assignment `l = other` or `l = std::move(other)` or one `l.swap(other)`,
\* l and other the same list or not.  The call record holds the two lists and l's size before.
AsgRec(name, l, other, r) ==
  [op |-> name, l |-> l, other |-> other, sz0 |-> size[l], exc |-> r.exc]

AsPushBack == \E l \in Lists, v \in Values :
  /\ phase = "push"
  /\ Do(push_back(S, l, v))
  /\ UNCHANGED Hist

AsPushFront == \E l \in Lists, v \in Values :
  /\ phase = "push"
  /\ Do(push_front(S, l, v))
  /\ UNCHANGED Hist

AsMove == \E l \in Lists, other \in Lists :
  LET r == move_assign(S, l, other) IN
  /\ phase = "push" /\ phase' = "assigned"
  /\ Do(r) /\ call' = AsgRec("move_assign", l, other, r)
  /\ UNCHANGED <<abs, pushed, popped>>

AsCopy == \E l \in Lists, other \in Lists :
  LET r == copy_assign(S, l, other) IN
  /\ phase = "push" /\ phase' = "assigned"
  /\ Do(r) /\ call' = AsgRec("copy_assign", l, other, r)
  /\ UNCHANGED <<abs, pushed, popped>>

AsSwap == \E l \in Lists, other \in Lists :
  LET r == swap(S, l, other) IN
  /\ phase = "push" /\ phase' = "assigned"
  /\ Do(r) /\ call' = AsgRec("swap", l, other, r)
  /\ UNCHANGED <<abs, pushed, popped>>

NextAsg == AsPushBack \/ AsPushFront \/ AsMove \/ AsCopy \/ AsSwap

SpecAsg == Init /\ [][NextAsg]_vars

\* ------------------------------------------------------ whole-list calls
\* The scenario of a single list, lst, built with push_back and push_front
\* and then given one call of assign (its three forms), of operator= from an
\* initializer list, of resize (its two forms), of append_range or of
\* prepend_range.  The arguments of assign are storage outside the list or,
\* in the alias calls, an element or a range of the list itself.  The call
\* record holds the count n, the value and the input range as they were when
\* the call was made, and the size before the call.
BulkRec(name, n, val, rg, r) ==
  [op |-> name, n |-> n, val |-> val, rg |-> rg, sz0 |-> size["lst"],
   exc |-> r.exc]

BkAssign == \E n \in 0..MaxCount, v \in Values :
  LET r == assign(S, "lst", n, v) IN
  /\ phase = "push" /\ phase' = "called"
  /\ Do(r) /\ call' = BulkRec("assign", n, v, <<>>, r)
  /\ UNCHANGED <<abs, pushed, popped>>

BkAssignRange == \E rg \in Ranges :
  LET r == assign_range(S, "lst", rg) IN
  /\ phase = "push" /\ phase' = "called"
  /\ Do(r) /\ call' = BulkRec("assign_range", 0, DefaultValue, rg, r)
  /\ UNCHANGED <<abs, pushed, popped>>

\* lst.assign(n, e) with e an element of lst, as in lst.assign(n, lst.front())
BkAssignAlias == \E n \in 0..MaxCount : \E p \in Range(FwdNodes(S, "lst")) :
  LET r == assign_alias(S, "lst", n, p) IN
  /\ phase = "push" /\ phase' = "called"
  /\ Do(r) /\ call' = BulkRec("assign_alias", n, heap[p].data, <<>>, r)
  /\ UNCHANGED <<abs, pushed, popped>>

\* lst.assign(first, last) with first and last iterators of lst
BkAssignRangeAlias == \E first \in Positions("lst") : \E last \in From(first) :
  LET r == assign_range_alias(S, "lst", first, last)
      src == Walk(heap, "next", first, MaxNodes + 1)
      k == IF last = NULL THEN Len(src) ELSE IndexOf(src, last) - 1
  IN
  /\ phase = "push" /\ phase' = "called"
  /\ Do(r)
  /\ call' = BulkRec("assign_range_alias", 0, DefaultValue,
                     DataOf(S, SubSeq(src, 1, k)), r)
  /\ UNCHANGED <<abs, pushed, popped>>

BkAssignIlist == \E rg \in Ranges :
  LET r == assign_ilist(S, "lst", rg) IN
  /\ phase = "push" /\ phase' = "called"
  /\ Do(r) /\ call' = BulkRec("assign_ilist", 0, DefaultValue, rg, r)
  /\ UNCHANGED <<abs, pushed, popped>>

BkIlistAssign == \E rg \in Ranges :
  LET r == ilist_assign(S, "lst", rg) IN
  /\ phase = "push" /\ phase' = "called"
  /\ Do(r) /\ call' = BulkRec("ilist_assign", 0, DefaultValue, rg, r)
  /\ UNCHANGED <<abs, pushed, popped>>

BkResize == \E n \in 0..MaxNodes :
  LET r == resize(S, "lst", n) IN
  /\ phase = "push" /\ phase' = "called"
  /\ Do(r) /\ call' = BulkRec("resize", n, DefaultValue, <<>>, r)
  /\ UNCHANGED <<abs, pushed, popped>>

BkResizeValue == \E n \in 0..MaxNodes, v \in Values :
  LET r == resize_value(S, "lst", n, v) IN
  /\ phase = "push" /\ phase' = "called"
  /\ Do(r) /\ call' = BulkRec("resize_value", n, v, <<>>, r)
  /\ UNCHANGED <<abs, pushed, popped>>

BkAppendRange == \E rg \in Ranges :
  LET r == append_range(S, "lst", rg) IN
  /\ phase = "push" /\ phase' = "called"
  /\ Do(r) /\ call' = BulkRec("append_range", 0, DefaultValue, rg, r)
  /\ UNCHANGED <<abs, pushed, popped>>

BkPrependRange == \E rg \in Ranges :
  LET r == prepend_range(S, "lst", rg) IN
  /\ phase = "push" /\ phase' = "called"
  /\ Do(r) /\ call' = BulkRec("prepend_range", 0, DefaultValue, rg, r)
  /\ UNCHANGED <<abs, pushed, popped>>

NextBulk ==
  \/ BuildPushBack \/ BuildPushFront
  \/ BkAssign \/ BkAssignRange \/ BkAssignIlist \/ BkIlistAssign
  \/ BkAssignAlias \/ BkAssignRangeAlias
  \/ BkResize \/ BkResizeValue \/ BkAppendRange \/ BkPrependRange

SpecBulk == Init /\ [][NextBulk]_vars

\* ---------------------------------------------------- single insertions
\* The scenario of a single list, lst, built with push_back and push_front
\* and then given one call of a member that inserts one element: push_back,
\* push_front, emplace_back, emplace_front, insert(pos, value) or
\* emplace(pos, value), pos any node of the list or the sentinel.
InCallPushBack == \E v \in Values :
  LET r == push_back(S, "lst", v) IN
  /\ phase = "push" /\ phase' = "called"
  /\ Do(r) /\ call' = CallRec("push_back", NULL, v, S, r)
  /\ UNCHANGED <<abs, pushed, popped>>

InCallPushFront == \E v \in Values :
  LET r == push_front(S, "lst", v) IN
  /\ phase = "push" /\ phase' = "called"
  /\ Do(r) /\ call' = CallRec("push_front", NULL, v, S, r)
  /\ UNCHANGED <<abs, pushed, popped>>

InCallEmplaceBack == \E v \in Values :
  LET r == emplace_back(S, "lst", v) IN
  /\ phase = "push" /\ phase' = "called"
  /\ Do(r) /\ call' = CallRec("emplace_back", NULL, v, S, r)
  /\ UNCHANGED <<abs, pushed, popped>>

InCallEmplaceFront == \E v \in Values :
  LET r == emplace_front(S, "lst", v) IN
  /\ phase = "push" /\ phase' = "called"
  /\ Do(r) /\ call' = CallRec("emplace_front", NULL, v, S, r)
  /\ UNCHANGED <<abs, pushed, popped>>

InCallInsert == \E v \in Values : \E pos \in Positions("lst") :
  LET r == insert(S, "lst", pos, v) IN
  /\ phase = "push" /\ phase' = "called"
  /\ Do(r) /\ call' = CallRec("insert", pos, v, S, r)
  /\ UNCHANGED <<abs, pushed, popped>>

InCallEmplace == \E v \in Values : \E pos \in Positions("lst") :
  LET r == emplace(S, "lst", pos, v) IN
  /\ phase = "push" /\ phase' = "called"
  /\ Do(r) /\ call' = CallRec("emplace", pos, v, S, r)
  /\ UNCHANGED <<abs, pushed, popped>>

SpecIns ==
  Init /\ [][\/ BuildPushBack \/ BuildPushFront
             \/ InCallPushBack \/ InCallPushFront \/ InCallEmplaceBack
             \/ InCallEmplaceFront \/ InCallInsert \/ InCallEmplace]_vars

\* ------------------------------------------------------------ traversal
\* The scenario of a list built with push_back and push_front and then walked
\* by `for (auto it = lst.begin(); it != lst.end(); ++it)` or by the same
\* loop over rbegin() and rend(), one round per step.  The call record holds
\* the node the iterator refers to and the nodes it has visited.
IterRec(name, current, visited, exc) ==
  [op |-> name, current |-> current, visited |-> visited, exc |-> exc]

\* reverse_iterator::operator++ that follows next.
reverse_increment_next(s, node_ptr) ==
  IF ~Valid(s, node_ptr) THEN Undefined(s)
  ELSE [s EXCEPT !.ret = Rd(s, node_ptr, "next")]

\* iterator::operator++: node_ptr = node_ptr->next;   (ret: node_ptr)
increment(s, node_ptr) ==
  IF ~Valid(s, node_ptr) THEN Undefined(s)
  ELSE [s EXCEPT !.ret = Rd(s, node_ptr, "next")]

\* iterator::operator--: node_ptr = node_ptr->prev;   (ret: node_ptr)
decrement(s, node_ptr) ==
  IF ~Valid(s, node_ptr) THEN Undefined(s)
  ELSE [s EXCEPT !.ret = Rd(s, node_ptr, "prev")]

\* reverse_iterator::operator++: node_ptr = node_ptr->prev;   (ret: node_ptr)
reverse_increment(s, node_ptr) ==
  IF ~Valid(s, node_ptr) THEN Undefined(s)
  ELSE [s EXCEPT !.ret = Rd(s, node_ptr, "prev")]

\* auto it = lst.begin();
ItBegin ==
  /\ phase = "push" /\ phase' = "forward"
  /\ call' = IterRec("iterator", begin(S, "lst"), <<>>, "none")
  /\ UNCHANGED <<heap, live, head, tail, size, abs, pushed, popped>>

\* it != lst.end(): the body reads *it, then ++it
ItStep ==
  LET r == increment(S, call.current) IN
  /\ phase = "forward" /\ call.exc = "none" /\ call.current # end(S, "lst")
  /\ call' = IterRec("iterator", r.ret, Append(call.visited, call.current), r.exc)
  /\ UNCHANGED <<heap, live, head, tail, size, abs, pushed, popped, phase>>

\* it == lst.end(): the loop is left
ItEnd ==
  /\ phase = "forward" /\ call.exc = "none" /\ call.current = end(S, "lst")
  /\ phase' = "walked"
  /\ UNCHANGED <<heap, live, head, tail, size, call, abs, pushed, popped>>

\* auto it = lst.rbegin();
RItBegin ==
  /\ phase = "push" /\ phase' = "backward"
  /\ call' = IterRec("reverse_iterator", rbegin(S, "lst"), <<>>, "none")
  /\ UNCHANGED <<heap, live, head, tail, size, abs, pushed, popped>>

\* it != lst.rend(): the body reads *it, then ++it
RItStep ==
  LET r == reverse_increment(S, call.current) IN
  /\ phase = "backward" /\ call.exc = "none" /\ call.current # rend(S, "lst")
  /\ call' = IterRec("reverse_iterator", r.ret,
                     Append(call.visited, call.current), r.exc)
  /\ UNCHANGED <<heap, live, head, tail, size, abs, pushed, popped, phase>>

\* it == lst.rend(): the loop is left
RItEnd ==
  /\ phase = "backward" /\ call.exc = "none" /\ call.current = rend(S, "lst")
  /\ phase' = "walked"
  /\ UNCHANGED <<heap, live, head, tail, size, call, abs, pushed, popped>>

\* A traversal loop that was entered keeps running: its rounds and its exit
\* are taken when they can be.
SpecIter ==
  /\ Init
  /\ [][\/ BuildPushBack \/ BuildPushFront
        \/ ItBegin \/ ItStep \/ ItEnd
        \/ RItBegin \/ RItStep \/ RItEnd]_vars
  /\ WF_vars(ItStep) /\ WF_vars(ItEnd) /\ WF_vars(RItStep) /\ WF_vars(RItEnd)

\* -------------------------------------------------- erasure of a range
\* The scenario of a list built with push_back and then given one call
\* erase(first, last), first and last any two positions of the list
\* in either order; the loop is run one round per step.  The call record
\* holds the cursor `first`, last, whether last could be reached from first
\* when the call was made, and the size before the call.
EraseRec(first, last, reach, sz0, exc) ==
  [op |-> "erase_range", first |-> first, last |-> last, reach |-> reach,
   sz0 |-> sz0, exc |-> exc]

\* erase(first, last) entered
ErEnter == \E first \in Positions("lst"), last \in Positions("lst") :
  /\ phase = "push" /\ phase' = "erasing"
  /\ call' = EraseRec(first, last, last \in From(first), size["lst"], "none")
  /\ UNCHANGED <<heap, live, head, tail, size, abs, pushed, popped>>

\* first != last: first = erase(first);
ErRound ==
  LET r == erase(S, "lst", call.first) IN
  /\ phase = "erasing" /\ call.exc = "none" /\ call.first # call.last
  /\ Do(r)
  /\ call' = EraseRec(r.ret, call.last, call.reach, call.sz0, r.exc)
  /\ UNCHANGED <<abs, pushed, popped, phase>>

\* first == last: return last;
ErExit ==
  /\ phase = "erasing" /\ call.exc = "none" /\ call.first = call.last
  /\ phase' = "erased"
  /\ UNCHANGED <<heap, live, head, tail, size, call, abs, pushed, popped>>

\* A call that was entered keeps running: its rounds and its exit are taken
\* when they can be.
SpecErase ==
  /\ Init /\ [][BuildPushBack \/ ErEnter \/ ErRound \/ ErExit]_vars
  /\ WF_vars(ErRound) /\ WF_vars(ErExit)

\* =================================================================== claims
\* C1: in every reachable state the cached size that getSize() returns equals
\* the number of nodes visited by following next from head to the sentinel.
C1_SizeCoherence ==
  \A l \in Lists : getSize(S, l) = Len(FwdNodes(S, l))

\* Both lists hold nodes, one of them more than one.
C1_Witness ==
  /\ size["lst"] = 2 /\ Len(FwdNodes(S, "lst")) = 2
  /\ size["another_lst"] = 1 /\ Len(FwdNodes(S, "another_lst")) = 1

\* C2: in every reachable state size == 0 iff head is null iff tail is null,
\* and empty() -- begin() == end() -- is true exactly when getSize() == 0.
C2_EmptyIff ==
  \A l \in Lists :
    /\ (size[l] = 0) <=> (head[l] = NULL)
    /\ (head[l] = NULL) <=> (tail[l] = NULL)
    /\ empty(S, l) <=> (getSize(S, l) = 0)

\* One list is empty while the heap is in use by the other.
C2_Witness ==
  /\ empty(S, "lst") /\ head["lst"] = NULL /\ tail["lst"] = NULL
  /\ ~empty(S, "another_lst") /\ size["another_lst"] = 3

\* C3: next and prev are mutual inverses along the chain from head.
C3_LinksInverse ==
  \A l \in Lists : \A n \in Range(FwdNodes(S, l)) :
    /\ heap[n].next # NULL => heap[heap[n].next].prev = n
    /\ heap[n].prev # NULL => heap[heap[n].prev].next = n

\* A list with an interior node: it has a successor and a predecessor.
C3_Witness ==
  \E n \in Range(FwdNodes(S, "lst")) :
    /\ heap[n].next # NULL /\ heap[n].prev # NULL
    /\ heap[n].next # heap[n].prev

\* C4: in a non-empty list head.prev and tail.next are null; with size == 1
\* head and tail are one node whose next and prev are both null.
C4_EndsNull ==
  \A l \in Lists :
    /\ (head[l] # NULL \/ size[l] # 0) =>
          /\ head[l] \in live /\ tail[l] \in live
          /\ heap[head[l]].prev = NULL
          /\ heap[tail[l]].next = NULL
    /\ size[l] = 1 =>
          /\ head[l] = tail[l]
          /\ heap[head[l]].next = NULL /\ heap[head[l]].prev = NULL

\* A one-node list beside a longer one.
C4_Witness ==
  /\ size["lst"] = 1 /\ head["lst"] # NULL /\ head["lst"] = tail["lst"]
  /\ size["another_lst"] = 2 /\ head["another_lst"] # tail["another_lst"]

\* C5: after push_back(v1) .. push_back(vn) on an empty list, traversal from
\* begin() to end() yields v1..vn and traversal from rbegin() to rend() yields
\* vn..v1 (and front() is v1, back() is vn, getSize() is n).
C5_OrderLaw ==
  phase = "push" =>
    /\ Elems(S, "lst") = pushed
    /\ RElems(S, "lst") = Rev(pushed)
    /\ getSize(S, "lst") = Len(pushed)
    /\ pushed # <<>> =>
          /\ Returned(front(S, "lst")) /\ front(S, "lst").ret = pushed[1]
          /\ Returned(back(S, "lst")) /\ back(S, "lst").ret = pushed[Len(pushed)]

\* Three values pushed, the first and the last different.
C5_Witness ==
  /\ phase = "push" /\ call.op = "push_back"
  /\ Len(pushed) = 3 /\ pushed[1] # pushed[3]

\* C6: driven side by side through push_back, push_front, pop_back,
\* pop_front, insert(pos, v), erase(pos) and clear, the forward traversal of
\* the list always equals the abstract sequence and getSize() its length.
C6_Refines ==
  /\ Elems(S, "lst") = abs
  /\ getSize(S, "lst") = Len(abs)

\* An interior node of a three-element list has just been erased.
C6_Witness ==
  /\ call.op = "erase" /\ call.exc = "none" /\ call.sz0 = 3
  /\ call.pos # NULL /\ call.ret # NULL /\ call.ret # head["lst"]
  /\ Len(abs) = 2 /\ abs[1] # abs[2]

\* The store made of the state a step leads to.
SP == [heap |-> heap', live |-> live', head |-> head', tail |-> tail',
       size |-> size', exc |-> "none", ret |-> NULL]

\* C7: front() and back() on an empty list raise out_of_range, on a non-empty
\* list return the element of the head node and of the tail node; either way
\* the list is unchanged.
C7_FrontBack ==
  [][call'.op \in {"front", "back"} =>
       /\ UNCHANGED <<heap, live, head, tail, size>>
       /\ IF empty(S, "lst")
          THEN call'.exc = "out_of_range"
          ELSE /\ call'.exc = "none"
               /\ call'.op = "front" => call'.ret = heap[head["lst"]].data
               /\ call'.op = "back" => call'.ret = heap[tail["lst"]].data]_vars

\* front() has just thrown on the empty list.
C7_Witness ==
  /\ call.op = "front" /\ call.exc = "out_of_range" /\ call.sz0 = 0
  /\ head["lst"] = NULL /\ tail["lst"] = NULL /\ size["lst"] = 0

\* C8: pop_back() and pop_front() on an empty list raise nothing, free no
\* node and leave head, tail and size (== 0) unchanged.
C8_PopEmpty ==
  [][(call'.op \in {"pop_back", "pop_front"} /\ empty(S, "lst")) =>
       /\ UNCHANGED <<heap, live, head, tail, size>>
       /\ call'.exc = "none"
       /\ size'["lst"] = 0]_vars

\* pop_front() has just returned from a call on the empty list.
C8_Witness ==
  /\ call.op = "pop_front" /\ call.sz0 = 0 /\ call.exc = "none"
  /\ head["lst"] = NULL /\ size["lst"] = 0

\* C9: n push_back calls on the empty list followed by n rounds of back()
\* and pop_back() leave head and tail null and size 0, and the values read
\* are the pushed values in reverse order.
C9_RoundTrip ==
  (phase = "popped" /\ Len(popped) = Len(pushed)) =>
    /\ head["lst"] = NULL /\ tail["lst"] = NULL /\ size["lst"] = 0
    /\ popped = Rev(pushed)

\* A round trip of three values, the first and the last different, is over.
C9_Witness ==
  /\ phase = "popped" /\ call.op = "pop_back"
  /\ Len(pushed) = 3 /\ Len(popped) = 3 /\ pushed[1] # pushed[3]

\* C10: insert(pos, value) that returns puts exactly one new node, holding
\* value, immediately before pos (at the end for the sentinel), keeps the
\* existing nodes in order with their data, adds one to size and returns an
\* iterator to the new node.
C10_InsertPost ==
  [][(call'.op = "insert" /\ call'.exc = "none") =>
       LET old == FwdNodes(S, "lst")
           n == call'.ret
       IN  /\ n \in Nodes \ live /\ live' = live \cup {n}
           /\ FwdNodes(SP, "lst") = InsertAt(old, IndexOf(old, call'.pos), n)
           /\ heap'[n].data = call'.val
           /\ DataOf(SP, old) = DataOf(S, old)
           /\ size'["lst"] = size["lst"] + 1]_vars

\* insert has just put a node between two nodes of a two-element list.
C10_Witness ==
  /\ call.op = "insert" /\ call.exc = "none" /\ call.sz0 = 2
  /\ call.pos # NULL /\ heap[call.ret].next = call.pos
  /\ heap[call.ret].prev # NULL

\* The chain q with the run of nodes ns put at index i.
InsertRun(q, i, ns) == SubSeq(q, 1, i - 1) \o ns \o SubSeq(q, i, Len(q))

\* C11: insert(pos, count, value) that returns puts exactly count new nodes
\* holding value as one run immediately before the original pos, keeps the
\* other nodes in order with their data, adds count to size and returns an
\* iterator to the node at the front of that run in list order (pos itself
\* when count is 0).
C11_InsertCount ==
  [][(call'.op = "insert_count" /\ call'.exc = "none") =>
       LET old == FwdNodes(S, "lst")
           new == FwdNodes(SP, "lst")
           i == IndexOf(old, call'.pos)
           run == SubSeq(new, i, i + call'.n - 1)
       IN  /\ Len(new) = Len(old) + call'.n
           /\ new = InsertRun(old, i, run)
           /\ Range(run) \cap live = {}
           /\ Cardinality(Range(run)) = call'.n
           /\ live' = live \cup Range(run)
           /\ \A n \in Range(run) : heap'[n].data = call'.val
           /\ DataOf(SP, old) = DataOf(S, old)
           /\ size'["lst"] = size["lst"] + call'.n
           /\ call'.ret = IF call'.n = 0 THEN call'.pos ELSE new[i]]_vars

\* Two copies have just been put between two nodes of a two-element list.
C11_Witness ==
  /\ call.op = "insert_count" /\ call.exc = "none" /\ call.n = 2
  /\ call.pos # NULL /\ size["lst"] = 4
  /\ heap[call.ret].prev # NULL
  /\ heap[heap[call.ret].next].next = call.pos
  /\ heap[heap[call.ret].prev].data # call.val

\* C12: insert(pos, first, last) and insert(pos, {e1..ek}) put the source
\* elements e1..ek, in that order, immediately before the original pos.
C12_RangeInsertOrder ==
  [][(call'.op \in {"insert_range", "insert_ilist"} /\ call'.exc = "none") =>
       LET old == Elems(S, "lst")
           i == IndexOf(FwdNodes(S, "lst"), call'.pos)
       IN  Elems(SP, "lst") = InsertRun(old, i, call'.rg)]_vars

\* C13: erase(pos) on the sentinel changes nothing and returns end();
\* otherwise exactly the node pos refers to is detached and freed, the other
\* nodes keep their order and data, size drops by one and the returned
\* iterator refers to the node that followed it (the sentinel after the last).
C13_ErasePost ==
  [][call'.op = "erase" =>
       LET old == FwdNodes(S, "lst")
           i == IndexOf(old, call'.pos)
           new == RemoveAt(old, i)
       IN  /\ call'.exc = "none"
           /\ IF call'.pos = NULL
              THEN /\ UNCHANGED <<heap, live, head, tail, size>>
                   /\ call'.ret = end(S, "lst")
              ELSE /\ FwdNodes(SP, "lst") = new
                   /\ BwdNodes(SP, "lst") = Rev(new)
                   /\ call'.pos \in live /\ live' = live \ {call'.pos}
                   /\ DataOf(SP, new) = DataOf(S, new)
                   /\ size'["lst"] = size["lst"] - 1
                   /\ call'.ret = IF i = Len(old) THEN NULL ELSE old[i + 1]]_vars

\* The tail of a three-element list has just been erased.
C13_Witness ==
  /\ call.op = "erase" /\ call.exc = "none" /\ call.sz0 = 3
  /\ call.pos # NULL /\ call.ret = NULL
  /\ size["lst"] = 2 /\ call.pos \notin live

\* C14: erase(first, last), last reachable from first, ends, frees exactly
\* the nodes of [first, last), leaves the others in place and in order and
\* returns last; erase(x, x) changes nothing and erase(begin(), end()) leaves
\* the list empty with size 0.
C14_EraseRange ==
  [][call'.op = "erase_range" =>
       LET old == FwdNodes(S, "lst")
           i == IndexOf(old, call'.pos)
           j == IndexOf(old, call'.last)
           gone == SubSeq(old, i, j - 1)
           new == SubSeq(old, 1, i - 1) \o SubSeq(old, j, Len(old))
       IN  /\ call'.exc = "none"
           /\ i <= j
           /\ FwdNodes(SP, "lst") = new
           /\ BwdNodes(SP, "lst") = Rev(new)
           /\ Range(gone) \subseteq live /\ live' = live \ Range(gone)
           /\ DataOf(SP, new) = DataOf(S, new)
           /\ size'["lst"] = size["lst"] - Len(gone)
           /\ call'.ret = call'.last
           /\ call'.pos = call'.last => UNCHANGED <<heap, live, head, tail, size>>
           /\ (call'.pos = begin(S, "lst") /\ call'.last = end(S, "lst")) =>
                head'["lst"] = NULL /\ tail'["lst"] = NULL /\ size'["lst"] = 0]_vars

\* The two middle nodes of a four-element list have just been erased.
C14_Witness ==
  /\ call.op = "erase_range" /\ call.exc = "none" /\ call.sz0 = 4
  /\ size["lst"] = 2 /\ call.last # NULL /\ call.last = tail["lst"]
  /\ heap[call.last].prev = head["lst"] /\ call.pos \notin live

\* C15: clear() frees every node of the list exactly once and leaves head and
\* tail null and size 0; a second clear() right after it raises nothing,
\* frees nothing and gives the same state, also on an already-empty list.
C15_ClearIdempotent ==
  [][call'.op = "clear" =>
       LET old == FwdNodes(S, "lst")
           again == clear(SP, "lst")
       IN  /\ call'.exc = "none"
           /\ Cardinality(Range(old)) = Len(old)
           /\ Range(old) \subseteq live /\ live' = live \ Range(old)
           /\ head'["lst"] = NULL /\ tail'["lst"] = NULL /\ size'["lst"] = 0
           /\ again.exc = "none"
           /\ again.heap = heap' /\ again.live = live'
           /\ again.head = head' /\ again.tail = tail' /\ again.size = size']_vars

\* clear() has just emptied a three-element list.
C15_Witness ==
  /\ call.op = "clear" /\ call.exc = "none" /\ call.sz0 = 3
  /\ live = Held /\ head["lst"] = NULL /\ tail["lst"] = NULL /\ size["lst"] = 0

\* C16: destruction, which runs clear(), ends on every reachable list of any
\* length: the loop reaches the null end of the next-chain after exactly
\* size rounds, each freeing a different live node, and leaves the list
\* empty.
C16_DtorTerminates ==
  /\ [](phase = "clearing" =>
          /\ call.exc = "none" /\ call.steps <= call.sz0
          /\ Len(Walk(heap, "next", call.current, MaxNodes + 1))
               = call.sz0 - call.steps)
  /\ (phase = "clearing") ~>
       (/\ phase = "destroyed" /\ call.exc = "none"
        /\ call.steps = call.sz0 /\ live = {}
        /\ head["lst"] = NULL /\ tail["lst"] = NULL /\ size["lst"] = 0)

\* The destructor of a three-element list has ended after three rounds.
C16_Witness ==
  /\ phase = "destroyed" /\ call.op = "~List"
  /\ call.sz0 = 3 /\ call.steps = 3 /\ live = {}

\* C17: a = std::move(b), a and b distinct, frees every node a held, makes a
\* hold exactly b's former nodes (same head, tail, size, element order) and
\* leaves b with head and tail null and size 0.
C17_MoveAssign ==
  [][(call'.op = "move_assign" /\ call'.l # call'.other) =>
       LET a == call'.l
           b == call'.other
       IN  /\ call'.exc = "none"
           /\ Range(FwdNodes(S, a)) \subseteq live
           /\ live' = live \ Range(FwdNodes(S, a))
           /\ head'[a] = head[b] /\ tail'[a] = tail[b] /\ size'[a] = size[b]
           /\ FwdNodes(SP, a) = FwdNodes(S, b)
           /\ BwdNodes(SP, a) = BwdNodes(S, b)
           /\ Elems(SP, a) = Elems(S, b)
           /\ head'[b] = NULL /\ tail'[b] = NULL /\ size'[b] = 0]_vars

\* lst, which held a node, now holds the two nodes another_lst had.
C17_Witness ==
  /\ call.op = "move_assign" /\ call.l = "lst" /\ call.other = "another_lst"
  /\ call.exc = "none" /\ call.sz0 = 1 /\ size["lst"] = 2
  /\ Cardinality(live) = 2 /\ head["another_lst"] = NULL
  /\ heap[head["lst"]].data # heap[tail["lst"]].data

\* C18: a = b, a and b distinct, that returns frees every node a held and
\* leaves a with newly allocated nodes holding b's elements in b's order
\* (same size), b's nodes, links, order and size being unchanged.
C18_CopyAssign ==
  [][(call'.op = "copy_assign" /\ call'.l # call'.other /\ call'.exc = "none") =>
       LET a == call'.l
           b == call'.other
           oldA == Range(FwdNodes(S, a))
           oldB == Range(FwdNodes(S, b))
           newA == FwdNodes(SP, a)
       IN  /\ oldA \subseteq live
           /\ Range(newA) \cap oldB = {}
           /\ Cardinality(Range(newA)) = Len(newA)
           /\ live' = (live \ oldA) \cup Range(newA)
           /\ Elems(SP, a) = Elems(S, b)
           /\ RElems(SP, a) = RElems(S, b)
           /\ size'[a] = size[b]
           /\ head'[b] = head[b] /\ tail'[b] = tail[b] /\ size'[b] = size[b]
           /\ FwdNodes(SP, b) = FwdNodes(S, b)
           /\ \A n \in oldB : heap'[n] = heap[n]]_vars

\* lst, which held a node, now holds copies of another_lst's two elements.
C18_Witness ==
  /\ call.op = "copy_assign" /\ call.l = "lst" /\ call.other = "another_lst"
  /\ call.exc = "none" /\ call.sz0 = 1
  /\ size["lst"] = 2 /\ size["another_lst"] = 2 /\ Cardinality(live) = 4
  /\ heap[head["lst"]].data # heap[tail["lst"]].data

\* C19: a = a and a = std::move(a) change nothing: no node is freed or
\* allocated and head, tail, size and the elements stay as they were.
C19_SelfAssign ==
  [][(call'.op \in {"copy_assign", "move_assign"} /\ call'.l = call'.other) =>
       /\ call'.exc = "none"
       /\ UNCHANGED <<heap, live, head, tail, size>>]_vars

\* lst, holding two nodes, has just been copy-assigned to itself.
C19_Witness ==
  /\ call.op = "copy_assign" /\ call.l = "lst" /\ call.other = "lst"
  /\ call.exc = "none" /\ call.sz0 = 2 /\ size["lst"] = 2
  /\ Len(FwdNodes(S, "lst")) = 2

\* C20: after any sequence of operations on the two lists, copy assignment,
\* move assignment and swap between them included, no node is reachable from
\* the head of both.
C20_SingleOwner ==
  Range(FwdNodes(S, "lst")) \cap Range(FwdNodes(S, "another_lst")) = {}

\* Both lists hold nodes, three in all, another_lst's node lying between
\* lst's two in the heap and holding the same element as lst's head.
C20_Witness ==
  /\ size["lst"] = 2 /\ size["another_lst"] = 1
  /\ heap[head["another_lst"]].data = heap[head["lst"]].data
  /\ head["lst"] < head["another_lst"] /\ head["another_lst"] < tail["lst"]
  /\ Cardinality(Range(FwdNodes(S, "lst")) \cup Range(FwdNodes(S, "another_lst"))) = 3

\* C21: a mutating call in which node allocation fails propagates the
\* failure and leaves the list in exactly the state it had before the call.
C21_AllocFailureKeepsState ==
  [][call'.exc = "bad_alloc" =>
       /\ FwdNodes(SP, "lst") = FwdNodes(S, "lst")
       /\ Elems(SP, "lst") = Elems(S, "lst")
       /\ head' = head /\ tail' = tail /\ size' = size
       /\ live' = live]_vars

\* n copies of v.
Copies(n, v) == [i \in 1..n |-> v]

\* C22: resize(count, value) that returns leaves size == count: shrinking
\* keeps the first count nodes in order and frees the others, growing keeps
\* the old nodes in order and appends count - size new nodes holding value,
\* and with count == size nothing changes.
C22_Resize ==
  [][(call'.op \in {"resize_value", "resize"} /\ call'.exc = "none") =>
       LET old == FwdNodes(S, "lst")
           new == FwdNodes(SP, "lst")
           n == call'.n
           s == size["lst"]
       IN  /\ size'["lst"] = n /\ Len(new) = n
           /\ n < s => /\ new = SubSeq(old, 1, n)
                       /\ live' = live \ Range(SubSeq(old, n + 1, s))
                       /\ Elems(SP, "lst") = SubSeq(Elems(S, "lst"), 1, n)
           /\ n > s => /\ SubSeq(new, 1, s) = old
                       /\ Range(SubSeq(new, s + 1, n)) \cap live = {}
                       /\ live' = live \cup Range(new)
                       /\ Elems(SP, "lst") = Elems(S, "lst") \o Copies(n - s, call'.val)
           /\ n = s => UNCHANGED <<heap, live, head, tail, size>>]_vars

\* resize(4, v) has just grown a list of two different elements by two.
C22_Witness ==
  /\ call.op = "resize_value" /\ call.exc = "none"
  /\ call.sz0 = 2 /\ call.n = 4 /\ size["lst"] = 4
  /\ heap[head["lst"]].data # heap[heap[head["lst"]].next].data
  /\ heap[tail["lst"]].data = call.val

\* C24: append_range(e1..ek) that returns leaves the old contents followed
\* by e1..ek, prepend_range(e1..ek) leaves e1..ek followed by the old
\* contents; size grows by k.
C24_RangeEnds ==
  [][(call'.op \in {"append_range", "prepend_range"} /\ call'.exc = "none") =>
       LET old == Elems(S, "lst")
           k == Len(call'.rg)
       IN  /\ size'["lst"] = size["lst"] + k
           /\ Len(FwdNodes(SP, "lst")) = Len(FwdNodes(S, "lst")) + k
           /\ RElems(SP, "lst") = Rev(Elems(SP, "lst"))
           /\ call'.op = "append_range" =>
                /\ Elems(SP, "lst") = old \o call'.rg
                /\ SubSeq(FwdNodes(SP, "lst"), 1, Len(old)) = FwdNodes(S, "lst")
           /\ call'.op = "prepend_range" =>
                /\ Elems(SP, "lst") = call'.rg \o old
                /\ SubSeq(FwdNodes(SP, "lst"), k + 1, k + Len(old))
                     = FwdNodes(S, "lst")]_vars

\* Two different elements have just been prepended to a two-element list.
C24_Witness ==
  /\ call.op = "prepend_range" /\ call.exc = "none"
  /\ call.sz0 = 2 /\ Len(call.rg) = 2 /\ call.rg[1] # call.rg[2]
  /\ size["lst"] = 4 /\ heap[head["lst"]].data = call.rg[1]

\* C25: assign(count, value), assign(first, last), assign(initializer list)
\* and operator=(initializer list) that return have freed every node the
\* list held and leave exactly the source elements in source order, size
\* being their number.
C25_AssignReplaces ==
  [][(/\ call'.op \in {"assign", "assign_range", "assign_ilist", "ilist_assign"}
      /\ call'.exc = "none") =>
       LET old == Range(FwdNodes(S, "lst"))
           new == FwdNodes(SP, "lst")
           src == IF call'.op = "assign" THEN Copies(call'.n, call'.val)
                  ELSE call'.rg
       IN  /\ Elems(SP, "lst") = src
           /\ RElems(SP, "lst") = Rev(src)
           /\ size'["lst"] = Len(src)
           /\ Cardinality(Range(new)) = Len(src)
           /\ live' = (live \ old) \cup Range(new)
           /\ Cardinality(live') = Cardinality(live) - Cardinality(old) + Len(src)]_vars

\* assign(first, last) has just replaced three elements by two different ones.
C25_Witness ==
  /\ call.op = "assign_range" /\ call.exc = "none"
  /\ call.sz0 = 3 /\ Len(call.rg) = 2 /\ call.rg[1] # call.rg[2]
  /\ size["lst"] = 2 /\ Cardinality(live) = 2

\* C29: insert(pos, first, last) and insert(pos, ilist) that return give the
\* node inserted last, which holds the last element of the source range, and
\* give pos itself when the range is empty.
C29_RangeInsertReturn ==
  [][(call'.op \in {"insert_range", "insert_ilist"} /\ call'.exc = "none") =>
       LET rg == call'.rg
           k == Len(rg)
           ret == call'.ret
       IN  /\ k = 0 => /\ ret = call'.pos
                       /\ UNCHANGED <<heap, live, head, tail, size>>
           /\ k > 0 => /\ ret \in live' \ live
                       /\ heap'[ret].data = rg[k]
                       /\ \E i \in 1..Len(FwdNodes(SP, "lst")) :
                            FwdNodes(SP, "lst")[i] = ret
           /\ k > 1 => /\ heap'[ret].next \in live' \ live
                       /\ heap'[heap'[ret].next].data = rg[k - 1]
           /\ k = 1 => heap'[ret].next = call'.pos]_vars

\* A range of two different elements has just been inserted before a node
\* of a non-empty list, and the call returned the node of the second.
C29_Witness ==
  /\ call.op = "insert_range" /\ call.exc = "none"
  /\ Len(call.rg) = 2 /\ call.rg[1] # call.rg[2]
  /\ call.pos # NULL /\ call.sz0 >= 1
  /\ call.ret \in live /\ heap[call.ret].data = call.rg[2]

\* C23: a.swap(b) exchanges the head, tail and size fields of the two lists
\* and neither allocates, frees nor relinks a node: a then traverses the
\* nodes b had and b those a had, every node is still live with the data and
\* links it had, and a second swap restores the fields.
C23_Swap ==
  [][call'.op = "swap" =>
       LET a == call'.l
           b == call'.other
           twice == swap(SP, a, b)
       IN  /\ call'.exc = "none"
           /\ head'[a] = head[b] /\ head'[b] = head[a]
           /\ tail'[a] = tail[b] /\ tail'[b] = tail[a]
           /\ size'[a] = size[b] /\ size'[b] = size[a]
           /\ heap' = heap /\ live' = live
           /\ FwdNodes(SP, a) = FwdNodes(S, b) /\ FwdNodes(SP, b) = FwdNodes(S, a)
           /\ BwdNodes(SP, a) = BwdNodes(S, b) /\ BwdNodes(SP, b) = BwdNodes(S, a)
           /\ Elems(SP, a) = Elems(S, b) /\ Elems(SP, b) = Elems(S, a)
           /\ twice.head = head /\ twice.tail = tail /\ twice.size = size
           /\ twice.heap = heap /\ twice.live = live]_vars

\* Two non-empty lists of different sizes and different first elements have
\* just been swapped.
C23_Witness ==
  /\ call.op = "swap" /\ call.exc = "none" /\ call.l # call.other
  /\ call.sz0 = 2 /\ size[call.l] = 1 /\ size[call.other] = 2
  /\ heap[head[call.l]].data # heap[head[call.other]].data

\* C30: the head and the tail of a list, and the next and prev of every node
\* reached from its head, are null or a live node, never a freed one.
C30_NoDanglingLinks ==
  \A l \in Lists :
    /\ head[l] \in live \cup {NULL}
    /\ tail[l] \in live \cup {NULL}
    /\ \A i \in 1..Len(FwdNodes(S, l)) :
         LET n == FwdNodes(S, l)[i]
         IN  /\ n \in live
             /\ heap[n].next \in live \cup {NULL}
             /\ heap[n].prev \in live \cup {NULL}

\* A node was freed from between two nodes that are still linked: lst holds
\* two nodes and the cell between their addresses is free.
C30_Witness ==
  /\ size["lst"] = 2 /\ head["lst"] = 1 /\ tail["lst"] = 3
  /\ heap[1].next = 3 /\ heap[3].prev = 1
  /\ 2 \notin live

\* C27: push_back, push_front, emplace_back, emplace_front, insert(pos, v)
\* and emplace(pos, v) that return have allocated exactly one node and freed
\* none, size is one more, the data of every old node is as it was, the only
\* old nodes with a changed link are the new node's neighbours (one or two),
\* head changes only when the node goes before the old head or into an empty
\* list, and tail only when it goes at the sentinel position or into an empty
\* list.
C27_InsertFrame ==
  [][(/\ call'.op \in {"push_back", "push_front", "emplace_back",
                       "emplace_front", "insert", "emplace"}
      /\ call'.exc = "none") =>
       LET added == live' \ live
           changed == {p \in live : heap'[p] # heap[p]}
       IN  /\ Cardinality(added) = 1 /\ live \subseteq live'
           /\ size'["lst"] = size["lst"] + 1
           /\ \A p \in live : heap'[p].data = heap[p].data
           /\ Cardinality(changed) <= 2
           /\ \A n \in added :
                /\ changed \subseteq {heap'[n].next, heap'[n].prev}
                /\ \A p \in changed :
                     /\ heap'[n].prev = p =>
                          heap'[p].next = n /\ heap'[p].prev = heap[p].prev
                     /\ heap'[n].next = p =>
                          heap'[p].prev = n /\ heap'[p].next = heap[p].next
                /\ head'["lst"] # head["lst"] =>
                     /\ head'["lst"] = n
                     /\ head["lst"] = NULL \/ heap'[n].next = head["lst"]
                /\ tail'["lst"] # tail["lst"] =>
                     /\ tail'["lst"] = n
                     /\ tail["lst"] = NULL \/ heap'[n].prev = tail["lst"]
           /\ (call'.op \in {"insert", "emplace"} /\ head'["lst"] # head["lst"]) =>
                call'.pos = head["lst"]
           /\ (call'.op \in {"insert", "emplace"} /\ tail'["lst"] # tail["lst"]) =>
                call'.pos = NULL
           /\ (call'.op \in {"push_back", "emplace_back"}
                 /\ head'["lst"] # head["lst"]) => size["lst"] = 0
           /\ (call'.op \in {"push_front", "emplace_front"}
                 /\ tail'["lst"] # tail["lst"]) => size["lst"] = 0]_vars

\* emplace has just put a node between the second and the third node of a
\* three-element list: both neighbours changed a link, head and tail did not.
C27_Witness ==
  /\ call.op = "emplace" /\ call.exc = "none" /\ call.sz0 = 3
  /\ call.pos = tail["lst"] /\ call.ret \in live
  /\ heap[call.ret].next = call.pos
  /\ heap[call.ret].prev # NULL /\ heap[call.ret].prev # head["lst"]
  /\ size["lst"] = 4

\* C26: on a list of n nodes, an iterator started at begin() and advanced
\* with ++ visits the n nodes in head-to-tail order and equals end() after
\* exactly n steps, and a reverse iterator started at rbegin() visits them in
\* tail-to-head order and equals rend() after exactly n steps.
C26_IterationEnds ==
  /\ [](phase \in {"forward", "walked"} /\ call.op = "iterator" =>
          /\ call.exc = "none"
          /\ call.visited = SubSeq(FwdNodes(S, "lst"), 1, Len(call.visited))
          /\ (call.current = end(S, "lst")) <=> (Len(call.visited) = size["lst"]))
  /\ [](phase \in {"backward", "walked"} /\ call.op = "reverse_iterator" =>
          /\ call.exc = "none"
          /\ call.visited = SubSeq(BwdNodes(S, "lst"), 1, Len(call.visited))
          /\ (call.current = rend(S, "lst")) <=> (Len(call.visited) = size["lst"]))
  /\ (phase = "forward") ~>
       (/\ phase = "walked" /\ call.current = end(S, "lst")
        /\ call.visited = FwdNodes(S, "lst")
        /\ Len(call.visited) = size["lst"])
  /\ (phase = "backward") ~>
       (/\ phase = "walked" /\ call.current = rend(S, "lst")
        /\ call.visited = BwdNodes(S, "lst")
        /\ call.visited = Rev(FwdNodes(S, "lst"))
        /\ Len(call.visited) = size["lst"])

\* A reverse traversal of a three-element list has ended after three steps,
\* its first visit being the tail and its last the head.
C26_Witness ==
  /\ phase = "walked" /\ call.op = "reverse_iterator"
  /\ size["lst"] = 3 /\ Len(call.visited) = 3
  /\ call.visited[1] = tail["lst"] /\ call.visited[3] = head["lst"]
  /\ call.current = NULL

\* C28: erase(first, last) with last a node that cannot be reached from
\* first never returns: the loop erases every node from first to the tail
\* (none when first is the sentinel), its cursor becomes the sentinel, which
\* erase(pos) gives back unchanged, and from then on the cursor never equals
\* last, which stays in the list.
C28_EraseRangeUnreachable ==
  /\ [](call.op = "erase_range" /\ ~call.reach =>
          /\ phase = "erasing" /\ call.exc = "none"
          /\ call.first # call.last
          /\ call.last \in Range(FwdNodes(S, "lst"))
          /\ size["lst"] = Len(FwdNodes(S, "lst")) /\ size["lst"] <= call.sz0)
  /\ [][(call.op = "erase_range" /\ ~call.reach /\ call.first = NULL) =>
          UNCHANGED vars]_vars
  /\ (phase = "erasing" /\ ~call.reach) ~>
       (/\ phase = "erasing" /\ ~call.reach /\ call.first = NULL
        /\ tail["lst"] # NULL /\ heap[tail["lst"]].next = NULL)

\* erase(first, last) with last before first has erased the two nodes from
\* first to the tail of a three-element list and is still in its loop, the
\* cursor on the sentinel.
C28_Witness ==
  /\ phase = "erasing" /\ call.op = "erase_range" /\ ~call.reach
  /\ call.sz0 = 3 /\ size["lst"] = 1
  /\ call.first = NULL /\ call.last = head["lst"]

\* The nodes store s reaches from the heads of the two lists.
Owned(s) == Range(FwdNodes(s, "lst")) \cup Range(FwdNodes(s, "another_lst"))

\* Store r, the end of a call made in the current state, is free of leaks
\* and the call deleted no node that was not live.
Clean(r) == r.exc # "undefined" /\ r.live = Held \cup Owned(r)

\* C31: every allocated node is on the chain of exactly one list, once (no
\* node is allocated and unreachable), and no member deletes a node that is
\* not live: whichever removing or replacing member is called next, and when
\* both lists are destroyed, every delete is of a live node and what stays
\* allocated is what the lists still reach.
C31_NoLeakNoDoubleFree ==
  /\ live = Held \cup Owned(S)
  /\ Range(FwdNodes(S, "lst")) \cap Range(FwdNodes(S, "another_lst")) = {}
  /\ \A l \in Lists :
       /\ Cardinality(Range(FwdNodes(S, l))) = Len(FwdNodes(S, l))
       /\ Clean(clear(S, l)) /\ Clean(pop_back(S, l)) /\ Clean(pop_front(S, l))
       /\ \A pos \in Positions(l) : Clean(erase(S, l, pos))
       /\ \A other \in Lists :
            Clean(move_assign(S, l, other)) /\ Clean(copy_assign(S, l, other))
       /\ \A n \in 0..MaxCount :
            Clean(assign(S, l, n, DefaultValue)) /\ Clean(resize(S, l, n))
  /\ LET gone == clear(clear(S, "lst"), "another_lst")
     IN  gone.exc = "none" /\ gone.live = Held

\* Both lists hold a node and the lowest cell, allocated first, is free again.
C31_Witness ==
  /\ size["lst"] = 1 /\ size["another_lst"] = 1
  /\ live = {2, 3} \cup Held /\ 1 \notin live

\* C32: in a non-empty list tail is the last node of the next-chain from
\* head and head is the last node of the prev-chain from tail, and the walk
\* back from tail visits the nodes of the walk from head in reverse order.
C32_EndsMeet ==
  \A l \in Lists :
    LET fwd == FwdNodes(S, l)
        bwd == BwdNodes(S, l)
    IN  (size[l] # 0 \/ head[l] # NULL \/ tail[l] # NULL) =>
          /\ fwd # <<>> /\ bwd # <<>>
          /\ tail[l] = fwd[Len(fwd)] /\ heap[tail[l]].next = NULL
          /\ head[l] = bwd[Len(bwd)] /\ heap[head[l]].prev = NULL
          /\ bwd = Rev(fwd)
          /\ Len(fwd) <= MaxNodes

\* A three-node list whose chain is not in address order: its middle node
\* has a lower address than its head and walks from both ends meet.
C32_Witness ==
  /\ size["lst"] = 3 /\ Len(BwdNodes(S, "lst")) = 3
  /\ heap[head["lst"]].next < head["lst"]
  /\ heap[tail["lst"]].prev = heap[head["lst"]].next

\* Store r has the heap, the live set and the list fields of the state a
\* step leads to, and ended as the recorded call did.
SameAsStep(r) ==
  /\ r.heap = heap' /\ r.live = live'
  /\ r.head = head' /\ r.tail = tail' /\ r.size = size'
  /\ r.exc = call'.exc

\* C33: push_back(v), emplace_back(v) and insert(end(), v) made in the same
\* state give the same heap, head, tail and size, and so do push_front(v),
\* emplace_front(v) and insert(begin(), v); head is null exactly when tail
\* is, so the emptiness tests of push_back and emplace_back agree.
C33_InsertionsAgree ==
  [][/\ call'.op = "push_back" =>
          /\ SameAsStep(emplace_back(S, "lst", call'.val))
          /\ SameAsStep(insert(S, "lst", end(S, "lst"), call'.val))
          /\ (head["lst"] = NULL) <=> (tail["lst"] = NULL)
     /\ (call'.op = "insert" /\ call'.pos = end(S, "lst")) =>
          /\ SameAsStep(push_back(S, "lst", call'.val))
          /\ SameAsStep(emplace_back(S, "lst", call'.val))
     /\ call'.op = "push_front" =>
          /\ SameAsStep(emplace_front(S, "lst", call'.val))
          /\ SameAsStep(insert(S, "lst", begin(S, "lst"), call'.val))
     /\ (call'.op = "insert" /\ call'.pos = begin(S, "lst")) =>
          /\ SameAsStep(push_front(S, "lst", call'.val))
          /\ SameAsStep(emplace_front(S, "lst", call'.val))]_vars

\* push_back has just appended to a two-element list whose head was
\* allocated after its tail.
C33_Witness ==
  /\ call.op = "push_back" /\ call.exc = "none" /\ call.sz0 = 2
  /\ size["lst"] = 3 /\ heap[tail["lst"]].data = call.val
  /\ head["lst"] > heap[tail["lst"]].prev

\* C34: on a non-empty list pop_front() leaves the state erase(begin())
\* leaves, and pop_back() the state erase of the tail node leaves, also when
\* the list has one node.
C34_RemovalsAgree ==
  [][/\ (call'.op = "pop_front" /\ size["lst"] # 0) =>
          /\ SameAsStep(erase(S, "lst", begin(S, "lst")))
          /\ size'["lst"] = size["lst"] - 1
     /\ (call'.op = "pop_back" /\ size["lst"] # 0) =>
          /\ SameAsStep(erase(S, "lst", rbegin(S, "lst")))
          /\ size'["lst"] = size["lst"] - 1
     /\ (call'.op = "erase" /\ call'.pos # NULL /\ call'.pos = head["lst"]) =>
          SameAsStep(pop_front(S, "lst"))
     /\ (call'.op = "erase" /\ call'.pos # NULL /\ call'.pos = tail["lst"]) =>
          SameAsStep(pop_back(S, "lst"))]_vars

\* pop_back has just removed the only node of the list.
C34_Witness ==
  /\ call.op = "pop_back" /\ call.exc = "none" /\ call.sz0 = 1
  /\ size["lst"] = 0 /\ head["lst"] = NULL /\ tail["lst"] = NULL
  /\ live = Held

\* C35: when the allocation in push_back, push_front, emplace_back,
\* emplace_front, insert(pos, v) or emplace(pos, v) fails, the call ends in
\* bad_alloc with head, tail, size, every node and every link as they were.
C35_SingleInsertAllocFailure ==
  [][(call'.op \in {"push_back", "push_front", "emplace_back",
                    "emplace_front", "insert", "emplace"}) =>
       /\ call'.exc \in {"none", "bad_alloc"}
       /\ (call'.exc = "bad_alloc") <=> (Nodes \ live = {})
       /\ call'.exc = "bad_alloc" =>
            /\ UNCHANGED <<heap, live, head, tail, size>>
            /\ FwdNodes(SP, "lst") = FwdNodes(S, "lst")
            /\ BwdNodes(SP, "lst") = BwdNodes(S, "lst")]_vars

\* emplace_front on a list that fills the heap has just ended in bad_alloc.
C35_Witness ==
  /\ call.op = "emplace_front" /\ call.exc = "bad_alloc"
  /\ call.sz0 = MaxNodes /\ size["lst"] = MaxNodes
  /\ Len(FwdNodes(S, "lst")) = MaxNodes

\* C36: assign(count, value) with value an element of the list and
\* assign(first, last) with first and last iterators of the list read no
\* freed node and leave the values the arguments denoted when the call was
\* made.
C36_AssignReadsLive ==
  [][(call'.op \in {"assign_alias", "assign_range_alias"}) =>
       /\ call'.exc # "undefined"
       /\ call'.exc = "none" =>
            Elems(SP, "lst") = IF call'.op = "assign_alias"
                               THEN Copies(call'.n, call'.val)
                               ELSE call'.rg]_vars

\* C37: pop_back, pop_front and erase decrement size only when it is at
\* least 1: a call on the empty list or on the sentinel leaves size as it
\* is, any other call takes exactly one off, and size never becomes
\* 2^w - 1 from 0.
C37_SizeNeverWraps ==
  [][call'.op \in {"pop_back", "pop_front", "erase"} =>
       /\ size'["lst"] # size["lst"] =>
            /\ size["lst"] >= 1
            /\ size'["lst"] = size["lst"] - 1
            /\ size'["lst"] = DecOf(size["lst"])
       /\ (size["lst"] = 0 \/ (call'.op = "erase" /\ call'.pos = NULL)) =>
            size'["lst"] = size["lst"]
       /\ size'["lst"] <= MaxNodes /\ size'["lst"] # SizeMod - 1
       /\ size'["lst"] = Len(FwdNodes(SP, "lst"))]_vars

\* pop_front has just been called on the empty list and size is still 0.
C37_Witness ==
  /\ call.op = "pop_front" /\ call.exc = "none" /\ call.sz0 = 0
  /\ size["lst"] = 0 /\ head["lst"] = NULL /\ tail["lst"] = NULL

\* C38: pop_back, pop_front and erase(pos) that remove node r free r alone:
\* every other node of the list is still live and on the chain, in the same
\* order and with the same data, and an iterator on any of them stepped
\* with ++ or -- does not arrive at r.
C38_RemovalFrame ==
  [][(/\ call'.op \in {"pop_back", "pop_front", "erase"}
      /\ call'.exc = "none" /\ live' # live) =>
       LET gone == live \ live'
           old == FwdNodes(S, "lst")
           kept == Range(old) \ gone
       IN  /\ Cardinality(gone) = 1 /\ gone \subseteq Range(old)
           /\ live' = live \ gone
           /\ Range(FwdNodes(SP, "lst")) = kept
           /\ FwdNodes(SP, "lst") = RemoveAt(old, IndexOf(old, CHOOSE r \in gone : TRUE))
           /\ \A p \in kept :
                /\ p \in live'
                /\ heap'[p].data = heap[p].data
                /\ increment(SP, p).exc = "none" /\ decrement(SP, p).exc = "none"
                /\ increment(SP, p).ret \notin gone
                /\ decrement(SP, p).ret \notin gone
                /\ increment(SP, p).ret \in kept \cup {NULL}
                /\ decrement(SP, p).ret \in kept \cup {NULL}]_vars

\* pop_front has just removed the head of a three-element list: the new
\* head has no predecessor and the two nodes left are linked both ways.
C38_Witness ==
  /\ call.op = "pop_front" /\ call.exc = "none" /\ call.sz0 = 3
  /\ size["lst"] = 2 /\ heap[head["lst"]].prev = NULL
  /\ heap[head["lst"]].next = tail["lst"] /\ heap[tail["lst"]].prev = head["lst"]

====
